---- MODULE Spec2Model ----
(***************************************************************************)
(* Model of the m357map scraping scripts: the merge of a run's batch into  *)
(* the persisted feature collection, the load-merge-persist run of every   *)
(* script variant, and the geocoding resolvers with their caches.          *)
(*                                                                         *)
(*   masonic  = src/masonic_analysis/M357_MAP.py                           *)
(*   ultra    = src/M357_MAP.py                                            *)
(*   combine  = src/combine_geojson.py                                     *)
(*   notebook = src/m357_map.py                                            *)
(*   hybrid   = src/masonic_analysis/wikipedia_scraper.py                  *)
(***************************************************************************)
EXTENDS Integers, Sequences, FiniteSets, TLC

VARIABLES
    \* ---- pure merge functions applied to drawn inputs (SpecMerge) ----
    old_fc,      \* S: the previous dataset, a list of features
    new_fc,      \* B: the batch, a list of features
    fn,          \* which merge function has been applied ("none" before)
    merged,      \* merge(S, B)
    remerged,    \* merge(merge(S, B), B)
    \* ---- load-merge-persist runs (SpecStore) ----
    script,      \* which script variant owns the dataset file
    pc,          \* position of the current run
    file,        \* content of the dataset file on disk
    tmp,         \* content of "<output>.tmp" (combine only)
    batch,       \* the features the current run collected
    combined,    \* the merged list the run is about to write
    exit,        \* exit status of the last run
    err,         \* what made the last run fail
    runs,        \* number of runs started
    startFile,   \* history: content of the dataset file when the run started
    seenIds,     \* history: links persisted at the end of earlier runs
    \* ---- geocoding resolvers and what they persist (SpecGeo) ----
    gscript,     \* which script variant is running
    gpc,         \* "idle" between processes, "work" while one runs
    gruns,       \* number of processes started
    cache,       \* the location cache: hint -> stored value, NoCoords = no entry
    others,      \* cache entries held for hints other than the modelled ones
    calls,       \* history: the last two resolver calls
    ncalls,      \* number of resolver calls made
    results,     \* the records this process has produced so far
    stored,      \* the records of the persisted file the next run reads
    written,     \* whether the persisted file exists
    \* ---- workers and the aggregating main thread (SpecAgg) ----
    ascript,     \* which script variant is running
    cond,        \* what is wrong with each source ("ok" = nothing)
    task,        \* state of each source's worker task
    out,         \* what each returned task returned
    collected,   \* the tasks whose result the main thread has taken
    abatch,      \* the batch the main thread has gathered
    alog,        \* the sources whose failure the main thread has logged
    wlog,        \* number of diagnostics the workers have logged
    apc,         \* main thread: "gather", "merge", "write", "done"
    \* ---- geocoding threads and the clock (SpecLimit) ----
    lscript,     \* which script variant is running
    now,         \* the clock, in limiter intervals (seconds)
    wpc,         \* where each geocoding thread is
    wake,        \* when each sleeping thread wakes up
    last_call,   \* RateLimiter: time of the last granted call, -1 = never
    used,        \* safe_requests_get: calls made in the current period
    pcalls,      \* the provider requests issued: [worker, provider, at]
    \* ---- writing a dataset and reading it back (SpecRound) ----
    rscript,     \* which script variant writes
    dataset,     \* the dataset in memory
    rfile,       \* the feature collection file
    readback,    \* what reading the file yields
    rpc,         \* "start", "written", "read"
    \* ---- threads writing the JSON cache file (SpecCache) ----
    cfile,       \* scraper_cache.json
    cpc,         \* where each thread is in its set call
    ckey,        \* the key each thread is writing
    cloaded,     \* the dict each thread got from load_json
    cdone,       \* the keys whose set call has returned
    \* ---- the executor's pool (SpecPool) ----
    pscript,     \* which script variant is running
    pcpus,       \* os.cpu_count() of the machine
    pqueued,     \* submitted tasks no thread has picked up
    prunning,    \* tasks a pool thread is running
    pdone,       \* finished tasks
    particles,   \* running process_article tasks of the inner pools
    \* ---- workers yielding records with the same link (SpecCollide) ----
    kscript,     \* which feed script is running
    klink,       \* the link of the record each source yields
    kprior,      \* the features of the dataset file before the run
    korder,      \* the sources in the order their tasks completed
    kearly,      \* the futures already finished when as_completed starts
    kyielded,    \* the sources in the order as_completed yielded them
    kbatch,      \* the features gathered by the main thread
    kmerged,     \* the features written to the dataset file
    kpc,         \* "submit", "gather", "done"
    \* ---- a run up to its merge step (SpecTerm) ----
    tscript,     \* which script variant is running
    tsource,     \* how each source's server behaves
    ttask,       \* "queued", "fetching", "returned", "raised" per task
    sroffset,    \* advanced_wiki_search: the offset of the page asked for
    tgot,        \* the futures as_completed has yielded
    tpc,         \* "gather", "merge", "done"
    \* ---- the unifier of the three layers (SpecUnify) ----
    google_sheets_data,  \* the rows read from the sheet
    alerts_data,         \* the properties of masonic_alerts.geojson
    unified_data,        \* what unify_data returned
    upc,                 \* "read", "unified"
    \* ---- the sheet updater (SpecSheet) ----
    column_J,    \* the cells of column J below the header, row 2 first
    page,        \* what scraping each URL gives: "ok" or "Error"
    urls,        \* main's list of URLs
    sresults,    \* executor.map(scrape_and_process, urls)
    cells,       \* the Cell objects handed to update_cells
    shpc,        \* "start", "scraped", "updated"
    \* ---- threads constructing GeoCache() (SpecSingleton) ----
    instance,    \* GeoCache._instance: 0 = None, else the object's number
    lock,        \* GeoCache._lock: 0 = free, else the thread holding it
    npc,         \* where each thread is in __new__
    handle,      \* the object each thread's last GeoCache() returned, 0 = none
    nnew,        \* how many GeoCache() calls each thread has made
    entries,     \* the keys in .cache of every object created, by number
    everset      \* the keys ever stored through any handle

aggVars == <<ascript, cond, task, out, collected, abatch, alog, wlog, apc>>
limVars == <<lscript, now, wpc, wake, last_call, used, pcalls>>
roundVars == <<rscript, dataset, rfile, readback, rpc>>
cacheVars == <<cfile, cpc, ckey, cloaded, cdone>>
poolVars == <<pscript, pcpus, pqueued, prunning, pdone, particles>>
collideVars == <<kscript, klink, kprior, korder, kearly, kyielded, kbatch, kmerged, kpc>>
termVars == <<tscript, tsource, ttask, sroffset, tgot, tpc>>
unifyVars == <<google_sheets_data, alerts_data, unified_data, upc>>
sheetVars == <<column_J, page, urls, sresults, cells, shpc>>
singletonVars == <<instance, lock, npc, handle, nnew, entries, everset>>
concVars ==
    <<aggVars, limVars, roundVars, cacheVars, poolVars, collideVars, termVars, unifyVars,
      sheetVars, singletonVars>>
geoVars == <<gscript, gpc, gruns, cache, others, calls, ncalls, results, stored, written>>
storeVars == <<script, pc, file, tmp, batch, combined, exit, err, runs, startFile, seenIds>>
mergeVars == <<old_fc, new_fc, fn, merged, remerged>>
vars == <<mergeVars, storeVars, geoVars, concVars>>

(***************************************************************************)
(* Bounds                                                                  *)
(***************************************************************************)
MaxLen == 2        \* longest feature list drawn as S or B of a pure merge
MaxBatch == 2      \* most features one run collects
MaxRuns == 2       \* runs of one script over the same dataset file

(***************************************************************************)
(* Features.  A feature is its 'properties' bag reduced to the link (the   *)
(* identifier) and the title (the payload that tells two records with the  *)
(* same link apart).  NoLink is a bag without a 'link' key; "" is a link   *)
(* that is present and empty.                                              *)
(***************************************************************************)
NoLink == "<no link>"
PyNone == "<None>"

Titles == {"Old", "New"}
Feature(l, t) == [link |-> l, title |-> t]

\* "link" in f["properties"]
HasLink(f) == f.link # NoLink
\* f["properties"].get("link")
GetLink(f) == IF HasLink(f) THEN f.link ELSE PyNone
\* f["properties"].get("link", "")
GetLinkOrEmpty(f) == IF HasLink(f) THEN f.link ELSE ""

SeqsUpTo(S, n) == UNION {[1..k -> S] : k \in 0..n}
Range(s) == {s[i] : i \in 1..Len(s)}

(***************************************************************************)
(* merge_features: a Python dict keyed by link, insertion-ordered; a key   *)
(* that is set again keeps its position and takes the new value.           *)
(***************************************************************************)
DictKeys(d) == {d[i].key : i \in 1..Len(d)}

DictSet(d, k, v) ==
    IF k \in DictKeys(d)
    THEN [i \in 1..Len(d) |-> IF d[i].key = k THEN [key |-> k, val |-> v] ELSE d[i]]
    ELSE Append(d, [key |-> k, val |-> v])

RECURSIVE DictUpdate(_, _)
DictUpdate(d, feats) ==
    IF feats = <<>> THEN d
    ELSE DictUpdate(DictSet(d, GetLinkOrEmpty(Head(feats)), Head(feats)), Tail(feats))

DictValues(d) == [i \in 1..Len(d) |-> d[i].val]

merge_features(old, new) == DictValues(DictUpdate(DictUpdate(<<>>, old), new))

(***************************************************************************)
(* merge_geojson_data, lines 265-268: new features whose link is already   *)
(* stored are dropped, the rest is appended to the stored list.            *)
(***************************************************************************)
existing_ids(existing) == {GetLink(f) : f \in Range(existing)}

KeepUnlessIn(ids, new) == SelectSeq(new, LAMBDA f : GetLink(f) \notin ids)

merge_geojson_features(existing, new) ==
    existing \o KeepUnlessIn(existing_ids(existing), new)

(***************************************************************************)
(* remove_duplicates / combine_geojson, lines 16-17 and 34-38.             *)
(***************************************************************************)
existing_links(existing) == {f.link : f \in {g \in Range(existing) : HasLink(g)}}

remove_duplicates(existing, new) == KeepUnlessIn(existing_links(existing), new)

combine_features(existing, new) == existing \o remove_duplicates(existing, new)

(***************************************************************************)
(* m357_map.main, lines 173-175 and 184: entries whose link is in the      *)
(* master list are dropped, the rest is appended.                          *)
(***************************************************************************)
is_duplicate(entry, master_data) ==
    \E i \in 1..Len(master_data) :
        GetLinkOrEmpty(master_data[i]) = GetLinkOrEmpty(entry)

new_entries(master_data, feed_entries) ==
    SelectSeq(feed_entries, LAMBDA e : ~is_duplicate(e, master_data))

extend_master(master_data, feed_entries) ==
    master_data \o new_entries(master_data, feed_entries)

(***************************************************************************)
(* Location hints and coordinates.  A coordinate pair is a tuple; NoCoords *)
(* is Python's None (and the (None, None) of geocode_hybrid and            *)
(* geocode_text).  The empty hint is "".                                   *)
(***************************************************************************)
Hints == {"Madrid", "Paris"}
NoCoords == <<>>
EmptyCache == [h \in Hints |-> NoCoords]

GeoIdle ==
    /\ gscript = "none" /\ gpc = "idle" /\ gruns = 0
    /\ cache = EmptyCache /\ others = 0
    /\ calls = <<>> /\ ncalls = 0
    /\ results = <<>> /\ stored = <<>> /\ written = FALSE

(***************************************************************************)
(* Sources: the feeds (or the language/keyword pairs) one run works on,    *)
(* one worker task each.                                                   *)
(***************************************************************************)
NumSources == 3
Sources == 1..NumSources

AggIdle ==
    /\ ascript = "none" /\ apc = "done"
    /\ cond = [s \in Sources |-> "ok"]
    /\ task = [s \in Sources |-> "queued"]
    /\ out = [s \in Sources |-> <<>>]
    /\ collected = {} /\ abatch = <<>> /\ alog = <<>> /\ wlog = 0

NumWorkers == 2
Workers == 1..NumWorkers

LimIdle ==
    /\ lscript = "none" /\ now = 0
    /\ wpc = [w \in Workers |-> "done"]
    /\ wake = [w \in Workers |-> 0]
    /\ last_call = -1 /\ used = 0 /\ pcalls = {}

RoundIdle ==
    /\ rscript = "none" /\ rpc = "read"
    /\ dataset = <<>> /\ readback = <<>>
    /\ rfile = [kind |-> "absent", features |-> <<>>]

CacheIdle ==
    /\ cfile = [kind |-> "absent", keys |-> {}]
    /\ cpc = [w \in Workers |-> "idle"]
    /\ ckey = [w \in Workers |-> ""]
    /\ cloaded = [w \in Workers |-> {}]
    /\ cdone = {}

PoolIdle ==
    /\ pscript = "none" /\ pcpus = 1
    /\ pqueued = 0 /\ prunning = 0 /\ pdone = 0 /\ particles = 0

CollideIdle ==
    /\ kscript = "none" /\ klink = <<>> /\ kprior = <<>> /\ korder = <<>>
    /\ kearly = {} /\ kyielded = <<>> /\ kbatch = <<>> /\ kmerged = <<>>
    /\ kpc = "done"

TermIdle ==
    /\ tscript = "none" /\ tsource = <<>> /\ ttask = <<>> /\ sroffset = <<>>
    /\ tgot = {} /\ tpc = "done"

UnifyIdle ==
    /\ google_sheets_data = <<>> /\ alerts_data = <<>> /\ unified_data = <<>>
    /\ upc = "idle"

SheetIdle ==
    /\ column_J = <<>> /\ page = <<>> /\ urls = <<>> /\ sresults = <<>>
    /\ cells = {} /\ shpc = "idle"

SingletonIdle ==
    /\ instance = 0 /\ lock = 0
    /\ npc = [w \in Workers |-> "done"]
    /\ handle = [w \in Workers |-> 0]
    /\ nnew = [w \in Workers |-> 0]
    /\ entries = <<>> /\ everset = {}

ConcIdle ==
    /\ AggIdle /\ LimIdle /\ RoundIdle /\ CacheIdle /\ PoolIdle /\ CollideIdle /\ TermIdle
    /\ UnifyIdle /\ SheetIdle /\ SingletonIdle

(***************************************************************************)
(* SpecMerge: the merge functions as pure functions of S and B.            *)
(***************************************************************************)
MergeLinks == {NoLink, "", "a"}
MergeFeatures == {Feature(l, t) : l \in MergeLinks, t \in Titles}
MergeInputs == SeqsUpTo(MergeFeatures, MaxLen)

MergeFns == {"merge_features", "merge_geojson_data", "combine_geojson"}

Merge(f, S, B) ==
    CASE f = "merge_features" -> merge_features(S, B)
      [] f = "merge_geojson_data" -> merge_geojson_features(S, B)
      [] f = "combine_geojson" -> combine_features(S, B)

StoreIdle ==
    /\ script = "none" /\ pc = "idle"
    /\ file = [kind |-> "absent", features |-> <<>>]
    /\ tmp = [kind |-> "absent", features |-> <<>>]
    /\ batch = <<>> /\ combined = <<>>
    /\ exit = "none" /\ err = "none" /\ runs = 0
    /\ startFile = [kind |-> "absent", features |-> <<>>]
    /\ seenIds = {}

InitMerge ==
    /\ old_fc \in MergeInputs
    /\ new_fc \in MergeInputs
    /\ fn = "none"
    /\ merged = <<>>
    /\ remerged = <<>>
    /\ StoreIdle
    /\ GeoIdle
    /\ ConcIdle

ApplyMerge(f) ==
    /\ fn = "none"
    /\ fn' = f
    /\ merged' = Merge(f, old_fc, new_fc)
    /\ remerged' = Merge(f, Merge(f, old_fc, new_fc), new_fc)
    /\ UNCHANGED <<old_fc, new_fc, storeVars, geoVars, concVars>>

ApplyMergeFeatures == ApplyMerge("merge_features")
ApplyMergeGeojsonData == ApplyMerge("merge_geojson_data")
ApplyCombineGeojson == ApplyMerge("combine_geojson")

NextMerge ==
    \/ ApplyMergeFeatures
    \/ ApplyMergeGeojsonData
    \/ ApplyCombineGeojson

SpecMerge == InitMerge /\ [][NextMerge]_vars

(***************************************************************************)
(* The dataset file.  A file is absent, truncated (opened for writing and  *)
(* not, or only partly, written: not valid JSON) or holds a feature        *)
(* collection.                                                             *)
(***************************************************************************)
Absent == [kind |-> "absent", features |-> <<>>]
Truncated == [kind |-> "truncated", features |-> <<>>]
FC(feats) == [kind |-> "fc", features |-> feats]

\* load_old_geojson: a missing file, a JSONDecodeError and a KeyError all
\* give the empty collection.
load_old_geojson(f) == IF f.kind = "fc" THEN f.features ELSE <<>>

\* merge_geojson_data, lines 257-263: existing_data["features"].  A missing
\* or unparsable file leaves FeatureCollection([]).  A file that parses gives
\* FeatureCollection(json.load(f)), whose "features" member is the whole
\* loaded document, a dict with the keys "type" and "features".
ultra_existing(f) ==
    IF f.kind = "fc"
    THEN [py |-> "dict", items |-> <<"type", "features">>]
    ELSE [py |-> "list", items |-> <<>>]

\* merge_geojson_data, line 265: iterating a dict yields its keys, and a str
\* has no .get: AttributeError, outside the try block.
ultra_ids_raise(existing) == existing.py = "dict" /\ existing.items # <<>>

\* load_master_data: json.load without a try block.
load_master_raises(f) == f.kind = "truncated"
load_master_data(f) == IF f.kind = "fc" THEN f.features ELSE <<>>

\* combine_geojson, lines 23-24: open + geojson.load inside the try block.
combine_load_raises(f) == f.kind # "fc"

(***************************************************************************)
(* SpecStore: runs of one script over its dataset file.                    *)
(***************************************************************************)
Scripts == {"masonic", "ultra", "combine", "notebook"}
InPlace == {"masonic", "ultra", "notebook"}

StoreLinks == {"a", "b"}
\* A feed entry always gets a 'link' property (process_entry line 285,
\* process_feed_entry line 201, parse_feed line 107).
BatchFeatures == {Feature(l, t) : l \in StoreLinks, t \in Titles}
Batches == SeqsUpTo(BatchFeatures, MaxBatch)

PersistedIds(f) == IF f.kind = "fc" THEN {g.link : g \in {h \in Range(f.features) : HasLink(h)}} ELSE {}

MergeIdle ==
    /\ old_fc = <<>> /\ new_fc = <<>> /\ fn = "none"
    /\ merged = <<>> /\ remerged = <<>>

InitStore ==
    /\ script \in Scripts
    /\ pc = "idle"
    /\ file \in {Absent, FC(<<>>)}
    /\ tmp = Absent
    /\ batch = <<>> /\ combined = <<>>
    /\ exit = "none" /\ err = "none" /\ runs = 0
    /\ startFile = file
    /\ seenIds = {}
    /\ MergeIdle
    /\ GeoIdle
    /\ ConcIdle

\* The run ends: status and cause are recorded, the file system is as it is,
\* the process and its locals are gone.
End(status, cause) ==
    /\ pc' = "idle"
    /\ exit' = status
    /\ err' = cause
    /\ batch' = <<>>
    /\ combined' = <<>>

\* main() starts; the workers have delivered the batch b.
BeginRun ==
    /\ pc = "idle"
    /\ runs < MaxRuns
    /\ \E b \in Batches : batch' = b
    /\ pc' = "load"
    /\ runs' = runs + 1
    /\ exit' = "running"
    /\ err' = "none"
    /\ combined' = <<>>
    /\ startFile' = file
    /\ seenIds' = seenIds \cup PersistedIds(file)
    /\ UNCHANGED <<script, file, tmp, mergeVars, geoVars, concVars>>

\* save_merged_geojson, lines 250-251.
LoadMasonic ==
    /\ script = "masonic" /\ pc = "load"
    /\ combined' = merge_features(load_old_geojson(file), batch)
    /\ pc' = "open"
    /\ UNCHANGED <<script, file, tmp, batch, exit, err, runs, startFile, seenIds, mergeVars, geoVars, concVars>>

\* merge_geojson_data, lines 257-268.
LoadUltra ==
    /\ script = "ultra" /\ pc = "load"
    /\ IF ultra_ids_raise(ultra_existing(file))
       THEN End("fail", "attribute_error")
       ELSE /\ combined' = merge_geojson_features(ultra_existing(file).items, batch)
            /\ pc' = "open"
            /\ UNCHANGED <<batch, exit, err>>
    /\ UNCHANGED <<script, file, tmp, runs, startFile, seenIds, mergeVars, geoVars, concVars>>

\* combine_geojson, lines 21-38; any exception ends in sys.exit(1), line 51.
LoadCombine ==
    /\ script = "combine" /\ pc = "load"
    /\ \E new_readable \in BOOLEAN :
        IF combine_load_raises(file)
        THEN End("fail", "read_prior")
        ELSE IF ~new_readable
        THEN End("fail", "read_new")
        ELSE /\ combined' = combine_features(file.features, batch)
             /\ pc' = "open"
             /\ UNCHANGED <<batch, exit, err>>
    /\ UNCHANGED <<script, file, tmp, runs, startFile, seenIds, mergeVars, geoVars, concVars>>

\* m357_map.main, lines 168-188 (master_data.json is the dataset).
LoadNotebook ==
    /\ script = "notebook" /\ pc = "load"
    /\ IF load_master_raises(file)
       THEN End("fail", "read_prior")
       ELSE IF new_entries(load_master_data(file), batch) = <<>>
       THEN End("ok", "none")
       ELSE /\ combined' = extend_master(load_master_data(file), batch)
            /\ pc' = "open"
            /\ UNCHANGED <<batch, exit, err>>
    /\ UNCHANGED <<script, file, tmp, runs, startFile, seenIds, mergeVars, geoVars, concVars>>

\* open(path, "w") truncates the dataset file itself.
OpenInPlace ==
    /\ script \in InPlace /\ pc = "open"
    /\ file' = Truncated
    /\ pc' = "dump"
    /\ UNCHANGED <<script, tmp, batch, combined, exit, err, runs, startFile, seenIds, mergeVars, geoVars, concVars>>

\* json.dump completes; the with block closes the file.
DumpInPlace ==
    /\ script \in InPlace /\ pc = "dump"
    /\ file' = FC(combined)
    /\ End("ok", "none")
    /\ UNCHANGED <<script, tmp, runs, startFile, seenIds, mergeVars, geoVars, concVars>>

\* combine_geojson, lines 37-41: the temporary file is opened and written.
OpenTemp ==
    /\ script = "combine" /\ pc = "open"
    /\ tmp' = Truncated
    /\ pc' = "dump"
    /\ UNCHANGED <<script, file, batch, combined, exit, err, runs, startFile, seenIds, mergeVars, geoVars, concVars>>

DumpTemp ==
    /\ script = "combine" /\ pc = "dump"
    /\ tmp' = FC(combined)
    /\ pc' = "replace"
    /\ UNCHANGED <<script, file, batch, combined, exit, err, runs, startFile, seenIds, mergeVars, geoVars, concVars>>

\* combine_geojson, line 45: os.replace(temp_path, output_path).
ReplaceTarget ==
    /\ script = "combine" /\ pc = "replace"
    /\ file' = tmp
    /\ tmp' = Absent
    /\ End("ok", "none")
    /\ UNCHANGED <<script, runs, startFile, seenIds, mergeVars, geoVars, concVars>>

\* open, json.dump or os.replace raises OSError (no permission, disk full).
\* The feed scripts do not catch it; combine_geojson logs it and exits 1.
WriteFails ==
    /\ pc \in {"open", "dump", "replace"}
    /\ End("fail", "write")
    /\ UNCHANGED <<script, file, tmp, runs, startFile, seenIds, mergeVars, geoVars, concVars>>

\* The process is killed during the run.
Interrupt ==
    /\ pc # "idle"
    /\ End("killed", "killed")
    /\ UNCHANGED <<script, file, tmp, runs, startFile, seenIds, mergeVars, geoVars, concVars>>

NextStore ==
    \/ BeginRun
    \/ LoadMasonic
    \/ LoadUltra
    \/ LoadCombine
    \/ LoadNotebook
    \/ OpenInPlace
    \/ DumpInPlace
    \/ OpenTemp
    \/ DumpTemp
    \/ ReplaceTarget
    \/ WriteFails
    \/ Interrupt

SpecStore == InitStore /\ [][NextStore]_vars

(***************************************************************************)
(* Geocoding.  Coordinates are integers; a provider may answer with a      *)
(* coordinate pair outside the valid ranges.                               *)
(***************************************************************************)
MaxEntries == 2    \* most entries one process handles
MaxGeoRuns == 2    \* processes of one script over the same persisted file

max_size == 500          \* GeoCache.max_size
photon_retries == 2      \* GEOLOCATION_CONFIG['photon']['retries']

\* (lon, lat) pairs a provider answers with: one valid and one out of range.
NominatimCoords == {<<-3, 40>>, <<200, 40>>}
PhotonCoords == {<<2, 48>>, <<200, 40>>}

is_valid_coords(lon, lat) == -180 <= lon /\ lon <= 180 /\ -90 <= lat /\ lat <= 90

\* What a provider answers to one request.
Response(k, lon, lat) == [kind |-> k, lon |-> lon, lat |-> lat]

\* geocode(text), the rate-limited Nominatim call: None, an exception, or a
\* location with .longitude and .latitude.
NominatimResponses ==
    {Response("none", 0, 0), Response("raise", 0, 0)}
        \cup {Response("location", c[1], c[2]) : c \in NominatimCoords}

\* One GET on the Photon endpoint: a requests.RequestException (timeout,
\* connection error), a status other than 200 or a 200 without features, a
\* 200 whose first feature lacks the expected members (KeyError, TypeError),
\* or a 200 whose first feature holds coordinates [lon, lat].
PhotonResponses ==
    {Response(k, 0, 0) : k \in {"request_exception", "no_features", "bad_payload"}}
        \cup {Response("features", c[1], c[2]) : c \in PhotonCoords}

PhotonSequences == [1..photon_retries -> PhotonResponses]

\* How the providers behave during one resolver call.  A response that no
\* resolver gets to ask for is not drawn: none after a valid Nominatim
\* location, none after a Photon response that ends the Photon loop.
Unasked == Response("no_features", 0, 0)
Behaviours ==
    {b \in [nom : NominatimResponses, photon : PhotonSequences] :
        /\ (b.nom.kind = "location" /\ is_valid_coords(b.nom.lon, b.nom.lat))
               => \A i \in 1..photon_retries : b.photon[i] = Unasked
        /\ \A i \in 1..(photon_retries - 1) :
               b.photon[i].kind \notin {"request_exception", "no_features"}
                   => b.photon[i + 1] = Unasked}

\* What one resolver call returns and leaves behind: the coordinates (or
\* NoCoords), the cache, and how often it called each provider.
Return(coords, c, n, p) == [result |-> coords, cache |-> c, nom |-> n, photon |-> p]

(***************************************************************************)
(* GeoCache of M357_MAP.py: a dict and max_size.  set() calls              *)
(* self.cache.popitem(last=False) when the dict is full; dict.popitem      *)
(* takes no keyword argument, so that call raises TypeError.               *)
(***************************************************************************)
cache_len(c, o) == o + Cardinality({h \in Hints : c[h] # NoCoords})
cache_set_raises(c, o) == cache_len(c, o) >= max_size
\* A cache whose set() stores nothing.
cache_set_forgets(c, key, value) == c
cache_set(c, key, value) == [c EXCEPT ![key] = value]

\* enhanced_geocode, lines 153-156 and 170-172: store and return, or the
\* TypeError of a full cache caught by the outer except (line 176).  The
\* list stored at line 171 and the tuple returned at line 172 hold the same
\* pair.
store_and_return(h, coords, c, o, n, p) ==
    IF cache_set_raises(c, o)
    THEN Return(NoCoords, c, n, p)
    ELSE Return(coords, cache_set(c, h, coords), n, p)

\* enhanced_geocode, lines 158-175: the Photon loop; p requests were made.
RECURSIVE photon_loop(_, _, _, _, _)
photon_loop(h, resps, c, o, p) ==
    IF p >= photon_retries
    THEN Return(NoCoords, c, 1, p)
    ELSE LET r == resps[p + 1] IN
         CASE r.kind \in {"request_exception", "no_features"} ->
                  photon_loop(h, resps, c, o, p + 1)
           [] r.kind = "bad_payload" -> Return(NoCoords, c, 1, p + 1)
           [] r.kind = "features" ->
                  IF is_valid_coords(r.lon, r.lat)
                  THEN store_and_return(h, <<r.lon, r.lat>>, c, o, 1, p + 1)
                  ELSE Return(NoCoords, c, 1, p + 1)

\* enhanced_geocode of M357_MAP.py; returns (lon, lat).
enhanced_geocode(h, nomr, resps, c, o) ==
    IF h = "" THEN Return(NoCoords, c, 0, 0)
    ELSE IF c[h] # NoCoords THEN Return(c[h], c, 0, 0)
    ELSE CASE nomr.kind = "raise" -> Return(NoCoords, c, 1, 0)
           [] nomr.kind = "location" /\ is_valid_coords(nomr.lon, nomr.lat) ->
                  store_and_return(h, <<nomr.lon, nomr.lat>>, c, o, 1, 0)
           [] OTHER -> photon_loop(h, resps, c, o, 0)

\* A resolver that remembers a failed lookup.
geocode_hybrid_negative(h, nomr, resps, c) ==
    IF h = "" THEN Return(NoCoords, c, 0, 0)
    ELSE Return(NoCoords, cache_set(c, h, <<0, 0>>), 1, 1)

\* geocode_hybrid of masonic_analysis/wikipedia_scraper.py; its cache is a
\* SQLite table and it returns (lat, lon).
geocode_hybrid(h, nomr, resps, c) ==
    IF h = "" THEN Return(NoCoords, c, 0, 0)
    ELSE IF c[h] # NoCoords THEN Return(c[h], c, 0, 0)
    ELSE IF nomr.kind = "location"
    THEN Return(<<nomr.lat, nomr.lon>>, cache_set(c, h, <<nomr.lat, nomr.lon>>), 1, 0)
    ELSE IF resps[1].kind = "features"
    THEN Return(<<resps[1].lat, resps[1].lon>>,
                cache_set(c, h, <<resps[1].lat, resps[1].lon>>), 1, 1)
    ELSE Return(NoCoords, c, 1, 1)

\* geocode_text of masonic_analysis/M357_MAP.py: no cache; returns (lon, lat).
geocode_text(h, nomr, resps, c) ==
    IF h = "" THEN Return(NoCoords, c, 0, 0)
    ELSE CASE nomr.kind = "raise" -> Return(NoCoords, c, 1, 0)
           [] nomr.kind = "location" -> Return(<<nomr.lon, nomr.lat>>, c, 1, 0)
           [] OTHER ->
                  IF resps[1].kind = "features"
                  THEN Return(<<resps[1].lon, resps[1].lat>>, c, 1, 1)
                  ELSE Return(NoCoords, c, 1, 1)

\* geocode_location of m357_map.py: no test of the text, time.sleep(1), then
\* geolocator.geocode; returns (lat, lon).
geocode_location(h, nomr, c) ==
    IF nomr.kind = "location"
    THEN Return(<<nomr.lat, nomr.lon>>, c, 1, 0)
    ELSE Return(NoCoords, c, 1, 0)

\* How often a call that returned ret waited on its rate limiter: the
\* RateLimiter around geocode (M357_MAP.py line 120, masonic line 81, hybrid
\* line 159), safe_requests_get around the Photon request of geocode_hybrid
\* (lines 113-119 and 190), and the time.sleep(1) that opens
\* geocode_location (m357_map.py line 79).
\* enhanced_geocoding of wikipedia_scraper.py: the cache is a JSON file;
\* Photon is asked first, then Nominatim; returns (lat, lon), unvalidated.
enhanced_geocoding(h, nomr, resps, c) ==
    IF h = "" THEN Return(NoCoords, c, 0, 0)
    ELSE IF c[h] # NoCoords THEN Return(c[h], c, 0, 0)
    ELSE IF resps[1].kind = "features"
    THEN Return(<<resps[1].lat, resps[1].lon>>,
                cache_set(c, h, <<resps[1].lat, resps[1].lon>>), 0, 1)
    ELSE IF nomr.kind = "location"
    THEN Return(<<nomr.lat, nomr.lon>>, cache_set(c, h, <<nomr.lat, nomr.lon>>), 1, 1)
    ELSE Return(NoCoords, c, 1, 1)

\* A resolver that waits on the limiter before it looks into the cache.
limiter_waits_first(s, ret) == 1
limiter_waits(s, ret) ==
    CASE s \in {"hybrid", "wiki"} -> ret.nom + ret.photon
      [] s = "notebook" -> 1
      [] OTHER -> ret.nom

(***************************************************************************)
(* Entries and the records made of them.  A record is reduced to its       *)
(* identifier (link; lang_pageid for an article), its coordinates and its  *)
(* priority (articles only).                                               *)
(***************************************************************************)
GeoScripts == {"ultra", "hybrid", "masonic"}
GeoLinks == {"a", "b"}
EntryHints == Hints \cup {""}
\* geo_lat / geo_long of a feed entry, as (lon, lat); NoCoords = not given.
MetaCoords == {NoCoords, <<-3, 40>>, <<-3, 95>>}
\* compute_priority: 1 for a plain title, 3 for a title with "lodge".
Priorities == {1, 3}

Record(l, coords, prio) == [link |-> l, coords |-> coords, priority |-> prio]

\* metadata_location of M357_MAP.py: validated.
metadata_location(meta) ==
    IF meta # NoCoords /\ is_valid_coords(meta[1], meta[2]) THEN meta ELSE NoCoords

\* process_entry of masonic_analysis/M357_MAP.py, lines 290-293.
masonic_geometry(coords) ==
    IF coords # NoCoords /\ is_valid_coords(coords[1], coords[2]) THEN coords ELSE NoCoords

\* merge_data of masonic_analysis/wikipedia_scraper.py.
DictGet(d, k) == d[CHOOSE i \in 1..Len(d) : d[i].key = k].val

RECURSIVE merge_data_old(_, _)
merge_data_old(d, items) ==
    IF items = <<>> THEN d
    ELSE merge_data_old(DictSet(d, Head(items).link, Head(items)), Tail(items))

RECURSIVE merge_data_new(_, _)
merge_data_new(d, items) ==
    IF items = <<>> THEN d
    ELSE LET item == Head(items)
             key == item.link
         IN  merge_data_new(
                 IF key \notin DictKeys(d) \/ item.priority > DictGet(d, key).priority
                 THEN DictSet(d, key, item) ELSE d,
                 Tail(items))

merge_data_overwrites(old_data, new_data) ==
    DictValues(merge_data_old(merge_data_old(<<>>, old_data), new_data))

merge_data(old_data, new_data) ==
    DictValues(merge_data_new(merge_data_old(<<>>, old_data), new_data))

\* export_data, lines 356-366: a feature with Point((lon, lat)) for every
\* item whose latitude and longitude are not None.
RECURSIVE export_features(_)
export_features(items) ==
    IF items = <<>> THEN <<>>
    ELSE LET obj == Head(items) IN
         (IF obj.coords # NoCoords
          THEN <<Record(obj.link, <<obj.coords[2], obj.coords[1]>>, obj.priority)>>
          ELSE <<>>) \o export_features(Tail(items))

\* The features of the persisted GeoJSON dataset.
PersistedFeatures == IF gscript = "hybrid" THEN export_features(stored) ELSE stored

(***************************************************************************)
(* SpecGeo: processes of one script that resolve locations and persist.    *)
(***************************************************************************)
InitGeo ==
    /\ gscript \in GeoScripts
    /\ gpc = "idle" /\ gruns = 0
    /\ cache = EmptyCache /\ others = 0
    /\ calls = <<>> /\ ncalls = 0
    /\ results = <<>> /\ stored = <<>> /\ written = FALSE
    /\ MergeIdle
    /\ StoreIdle
    /\ ConcIdle

\* A process starts.
GeoStart ==
    /\ gpc = "idle" /\ gruns < MaxGeoRuns
    /\ gpc' = "work"
    /\ gruns' = gruns + 1
    /\ UNCHANGED <<gscript, cache, others, calls, ncalls, results, stored, written, mergeVars, storeVars, concVars>>

\* A process ends and its locals are gone.  The GeoCache of M357_MAP.py
\* lives in the process; the SQLite cache of the wikipedia scraper is a
\* file and survives.
GeoEnd ==
    /\ gpc' = "idle"
    /\ cache' = IF gscript = "hybrid" THEN cache ELSE EmptyCache
    /\ others' = 0
    /\ results' = <<>>

\* The process resolves hints other than the modelled ones, each stored by
\* GeoCache.set while the dict is not full, until one slot is left.
ResolveOtherHints ==
    /\ gscript = "ultra" /\ gpc = "work"
    /\ cache_len(cache, others) < max_size - 1
    /\ others' = others + (max_size - 1 - cache_len(cache, others))
    /\ UNCHANGED <<gscript, gpc, gruns, cache, calls, ncalls, results, stored, written, mergeVars, storeVars, concVars>>

\* process_feed_entry of M357_MAP.py: metadata_location, then
\* content_location, which resolves the location text found (if any).
ProcessFeedEntry ==
    /\ gscript = "ultra" /\ gpc = "work" /\ Len(results) < MaxEntries
    /\ \E l \in GeoLinks, meta \in MetaCoords, h \in EntryHints :
        IF metadata_location(meta) # NoCoords \/ h = ""
        THEN /\ results' = Append(results, Record(l, metadata_location(meta), 0))
             /\ UNCHANGED cache
        ELSE \E b \in Behaviours :
             LET ret == enhanced_geocode(h, b.nom, b.photon, cache, others) IN
             /\ results' = Append(results, Record(l, ret.result, 0))
             /\ cache' = ret.cache
    /\ UNCHANGED <<gscript, gpc, gruns, others, calls, ncalls, stored, written, mergeVars, storeVars, concVars>>

\* process_article of masonic_analysis/wikipedia_scraper.py.
ProcessArticle ==
    /\ gscript = "hybrid" /\ gpc = "work" /\ Len(results) < MaxEntries
    /\ \E l \in GeoLinks, prio \in Priorities, h \in EntryHints :
        IF h = ""
        THEN /\ results' = Append(results, Record(l, NoCoords, prio))
             /\ UNCHANGED cache
        ELSE \E b \in Behaviours :
             LET ret == geocode_hybrid(h, b.nom, b.photon, cache) IN
             /\ results' = Append(results, Record(l, ret.result, prio))
             /\ cache' = ret.cache
    /\ UNCHANGED <<gscript, gpc, gruns, others, calls, ncalls, stored, written, mergeVars, storeVars, concVars>>

\* process_entry of masonic_analysis/M357_MAP.py: advanced_extract_location
\* returns the entry's own coordinates unvalidated, else geocodes its
\* location text; process_entry validates before it builds the geometry.
ProcessEntry ==
    /\ gscript = "masonic" /\ gpc = "work" /\ Len(results) < MaxEntries
    /\ \E l \in GeoLinks, meta \in MetaCoords, h \in EntryHints :
        IF meta # NoCoords
        THEN /\ results' = Append(results, Record(l, masonic_geometry(meta), 0))
             /\ UNCHANGED cache
        ELSE \E b \in Behaviours :
             LET ret == geocode_text(h, b.nom, b.photon, cache) IN
             /\ results' = Append(results, Record(l, masonic_geometry(ret.result), 0))
             /\ cache' = ret.cache
    /\ UNCHANGED <<gscript, gpc, gruns, others, calls, ncalls, stored, written, mergeVars, storeVars, concVars>>

\* merge_geojson_data of M357_MAP.py ends the process: it raises on a
\* dataset file that parses, and writes the merged features otherwise.
SaveUltra ==
    /\ gscript = "ultra" /\ gpc = "work"
    /\ GeoEnd
    /\ LET prior == IF written THEN FC(stored) ELSE Absent IN
       IF ultra_ids_raise(ultra_existing(prior))
       THEN UNCHANGED <<stored, written>>
       ELSE /\ stored' = merge_geojson_features(ultra_existing(prior).items, results)
            /\ written' = TRUE
    /\ UNCHANGED <<gscript, gruns, calls, ncalls, mergeVars, storeVars, concVars>>

\* main of masonic_analysis/wikipedia_scraper.py, lines 385 and 406-409:
\* load_previous_data, merge_data, export_data.
ExportHybrid ==
    /\ gscript = "hybrid" /\ gpc = "work"
    /\ GeoEnd
    /\ stored' = merge_data(stored, results)
    /\ written' = TRUE
    /\ UNCHANGED <<gscript, gruns, calls, ncalls, mergeVars, storeVars, concVars>>

\* save_merged_geojson of masonic_analysis/M357_MAP.py.
SaveMasonic ==
    /\ gscript = "masonic" /\ gpc = "work"
    /\ GeoEnd
    /\ stored' = merge_features(load_old_geojson(IF written THEN FC(stored) ELSE Absent), results)
    /\ written' = TRUE
    /\ UNCHANGED <<gscript, gruns, calls, ncalls, mergeVars, storeVars, concVars>>

NextGeo ==
    \/ GeoStart
    \/ ResolveOtherHints
    \/ ProcessFeedEntry
    \/ ProcessArticle
    \/ ProcessEntry
    \/ SaveUltra
    \/ ExportHybrid
    \/ SaveMasonic

SpecGeo == InitGeo /\ [][NextGeo]_vars

(***************************************************************************)
(* Exceptions raised inside one resolver call, and what its handlers       *)
(* catch.  GeocoderError stands for what geopy raises (timeout, service    *)
(* error); KeyError for what a malformed Photon payload raises; TypeError  *)
(* is what GeoCache.set raises on a full cache.                            *)
(***************************************************************************)
Exceptions == {"GeocoderError", "RequestException", "KeyError", "TypeError"}

\* The first Photon response that ends the Photon loop of enhanced_geocode,
\* or Unasked when every attempt was a request exception or had no features.
RECURSIVE photon_last(_, _)
photon_last(resps, p) ==
    IF p > photon_retries THEN Unasked
    ELSE IF resps[p].kind \in {"request_exception", "no_features"}
    THEN photon_last(resps, p + 1)
    ELSE resps[p]

photon_raised(r) ==
    CASE r.kind = "request_exception" -> {"RequestException"}
      [] r.kind = "bad_payload" -> {"KeyError"}
      [] OTHER -> {}

\* The exceptions raised by the statements inside the try blocks.
thrown(scr, h, nomr, resps, c, o) ==
    IF h = "" /\ scr # "notebook" THEN {}
    ELSE IF scr \in {"ultra", "hybrid", "wiki"} /\ c[h] # NoCoords THEN {}
    ELSE IF nomr.kind = "raise" /\ scr \notin {"hybrid", "wiki"} THEN {"GeocoderError"}
    ELSE CASE scr = "notebook" -> {}
           [] scr = "wiki" ->
                  IF resps[1].kind = "features" THEN {}
                  ELSE photon_raised(resps[1])
                           \cup (IF nomr.kind = "raise" THEN {"RequestException"} ELSE {})
           [] scr = "masonic" ->
                  IF nomr.kind = "location" THEN {} ELSE photon_raised(resps[1])
           [] scr = "hybrid" ->
                  IF nomr.kind = "location" THEN {}
                  ELSE (IF nomr.kind = "raise" THEN {"GeocoderError"} ELSE {})
                           \cup photon_raised(resps[1])
           [] OTHER ->
                  IF nomr.kind = "location" /\ is_valid_coords(nomr.lon, nomr.lat)
                  THEN (IF cache_set_raises(c, o) THEN {"TypeError"} ELSE {})
                  ELSE LET r == photon_last(resps, 1) IN
                       (IF \E i \in 1..photon_retries :
                               /\ resps[i].kind = "request_exception"
                               /\ \A j \in 1..(i - 1) :
                                      resps[j].kind \in {"request_exception", "no_features"}
                        THEN {"RequestException"} ELSE {})
                       \cup photon_raised(r)
                       \cup (IF r.kind = "features" /\ is_valid_coords(r.lon, r.lat)
                                 /\ cache_set_raises(c, o)
                             THEN {"TypeError"} ELSE {})

caught_requests_only(scr) == {"RequestException"}
\* "except Exception" around the body of every resolver.
caught(scr) == Exceptions

(***************************************************************************)
(* SpecResolve: one process calls its resolver, with any hint and any      *)
(* behaviour of the providers, several times in a row.                     *)
(***************************************************************************)
MaxCalls == 3      \* resolver calls of the process

\* The history keeps the last two resolver calls.
\* What Nominatim answers in one call, seen from the caller: "valid" or
\* "invalid" coordinates, "empty" (None), "error" (an exception).
nominatim_answer(nomr) ==
    CASE nomr.kind = "none" -> "empty"
      [] nomr.kind = "raise" -> "error"
      [] OTHER -> IF is_valid_coords(nomr.lon, nomr.lat) THEN "valid" ELSE "invalid"

\* Whether the first answer of Photon holds valid coordinates.
photon_usable(resps) ==
    resps[1].kind = "features" /\ is_valid_coords(resps[1].lon, resps[1].lat)

\* The coordinate pairs the providers answered with in one call, of the
\* requests the resolver made, as (lon, lat).
answered(ret, b) ==
    (IF ret.nom >= 1 /\ b.nom.kind = "location" THEN {<<b.nom.lon, b.nom.lat>>} ELSE {})
        \cup {<<b.photon[i].lon, b.photon[i].lat>> :
                 i \in {j \in 1..ret.photon : b.photon[j].kind = "features"}}

Logged(log, h, ret, exc, b) ==
    LET call == [hint |-> h, result |-> ret.result, nom |-> ret.nom, photon |-> ret.photon,
                 primary |-> nominatim_answer(b.nom), secondary_ok |-> photon_usable(b.photon),
                 thrown |-> exc, escaped |-> exc \ caught(gscript),
                 waits |-> limiter_waits(gscript, ret),
                 hit |-> (h # "" /\ cache[h] # NoCoords),
                 mutated |-> (ret.cache # cache),
                 answers |-> answered(ret, b)]
    IN  IF Len(log) < 2 THEN Append(log, call) ELSE <<log[2], call>>

ResolveScripts == GeoScripts \cup {"notebook", "wiki"}

InitResolve ==
    /\ gscript \in ResolveScripts
    /\ gpc = "work" /\ gruns = 1
    /\ cache = EmptyCache /\ others = 0
    /\ calls = <<>> /\ ncalls = 0
    /\ results = <<>> /\ stored = <<>> /\ written = FALSE
    /\ MergeIdle
    /\ StoreIdle
    /\ ConcIdle

\* The call returns ret: the cache is as the resolver left it.
Resolved(h, ret, exc, b) ==
    /\ cache' = ret.cache
    /\ calls' = Logged(calls, h, ret, exc, b)
    /\ ncalls' = ncalls + 1
    /\ UNCHANGED <<gscript, gpc, gruns, others, results, stored, written, mergeVars, storeVars, concVars>>

CallEnhancedGeocode ==
    /\ gscript = "ultra" /\ ncalls < MaxCalls
    /\ \E h \in EntryHints, b \in Behaviours :
        Resolved(h, enhanced_geocode(h, b.nom, b.photon, cache, others),
                 thrown(gscript, h, b.nom, b.photon, cache, others), b)

CallGeocodeHybrid ==
    /\ gscript = "hybrid" /\ ncalls < MaxCalls
    /\ \E h \in EntryHints, b \in Behaviours :
        Resolved(h, geocode_hybrid(h, b.nom, b.photon, cache),
                 thrown(gscript, h, b.nom, b.photon, cache, others), b)

CallGeocodeText ==
    /\ gscript = "masonic" /\ ncalls < MaxCalls
    /\ \E h \in EntryHints, b \in Behaviours :
        Resolved(h, geocode_text(h, b.nom, b.photon, cache),
                 thrown(gscript, h, b.nom, b.photon, cache, others), b)

CallGeocodeLocation ==
    /\ gscript = "notebook" /\ ncalls < MaxCalls
    /\ \E h \in EntryHints, b \in Behaviours :
        Resolved(h, geocode_location(h, b.nom, cache),
                 thrown(gscript, h, b.nom, b.photon, cache, others), b)

CallEnhancedGeocoding ==
    /\ gscript = "wiki" /\ ncalls < MaxCalls
    /\ \E h \in EntryHints, b \in Behaviours :
        Resolved(h, enhanced_geocoding(h, b.nom, b.photon, cache),
                 thrown(gscript, h, b.nom, b.photon, cache, others), b)

NextResolve ==
    \/ ResolveOtherHints
    \/ CallEnhancedGeocoding
    \/ CallEnhancedGeocode
    \/ CallGeocodeHybrid
    \/ CallGeocodeText
    \/ CallGeocodeLocation

SpecResolve == InitResolve /\ [][NextResolve]_vars

(***************************************************************************)
(* SpecAgg: the worker tasks of one run and the main thread that gathers   *)
(* their results and then stores the batch.  A source is in one of four    *)
(* conditions: "ok"; "fetch" (network error or HTTP error status);         *)
(* "malformed" (the payload cannot be parsed); "item" (processing the      *)
(* first of its items fails).                                              *)
(***************************************************************************)
AggScripts == {"ultra", "masonic", "wiki"}
Conditions == {"ok", "fetch", "malformed", "item"}
ItemsPerSource == 2

\* The records a healthy source yields, in order.
Items(s) == [k \in 1..ItemsPerSource |-> <<s, k>>]

Outcome(raised, records, logs) == [raised |-> raised, records |-> records, logs |-> logs]

\* ultra: requests.get + raise_for_status are outside any try; feedparser
\* yields no entries for an unparseable payload; process_feed_entry logs
\* and returns None for a failing entry, which is filtered out.
process_feed(s, c) ==
    CASE c = "ok" -> Outcome(FALSE, Items(s), 0)
      [] c = "fetch" -> Outcome(TRUE, <<>>, 0)
      [] c = "malformed" -> Outcome(FALSE, <<>>, 0)
      [] OTHER -> Outcome(FALSE, Tail(Items(s)), 1)

\* masonic: feedparser fetches by itself and does not raise; no entries is
\* logged as "Feed vacio"; process_entry is called outside any try.
parse_feed(s, c) ==
    CASE c = "ok" -> Outcome(FALSE, Items(s), 0)
      [] c \in {"fetch", "malformed"} -> Outcome(FALSE, <<>>, 1)
      [] OTHER -> Outcome(TRUE, <<>>, 0)

\* wiki: advanced_search is called outside any try and raises after its
\* retries; a failing article is logged and the others are kept.
process_language_keyword(s, c) ==
    CASE c = "ok" -> Outcome(FALSE, Items(s), 0)
      [] c \in {"fetch", "malformed"} -> Outcome(TRUE, <<>>, 0)
      [] OTHER -> Outcome(FALSE, Tail(Items(s)), 1)

worker(scr, s, c) ==
    CASE scr = "ultra" -> process_feed(s, c)
      [] scr = "masonic" -> parse_feed(s, c)
      [] OTHER -> process_language_keyword(s, c)

max_workers == 8
MAX_WORKERS == 5
pool_size(scr) == IF scr = "wiki" THEN MAX_WORKERS ELSE max_workers

Running == {s \in Sources : task[s] = "running"}
Finished == {s \in Sources : task[s] \in {"returned", "raised"}}

extend_replaces(all_feats, chunk) == chunk
\* results.extend(future.result())
extend(all_feats, chunk) == all_feats \o chunk

as_completed_any(got) == got # {}
\* the as_completed loop ends when every future has been yielded
as_completed_exhausted(got) == got = Sources

InitAgg ==
    /\ ascript \in AggScripts
    /\ cond \in [Sources -> Conditions]
    /\ task = [s \in Sources |-> "queued"]
    /\ out = [s \in Sources |-> <<>>]
    /\ collected = {} /\ abatch = <<>> /\ alog = <<>> /\ wlog = 0
    /\ apc = "gather"
    /\ MergeIdle
    /\ StoreIdle
    /\ GeoIdle
    /\ LimIdle
    /\ RoundIdle
    /\ CacheIdle
    /\ PoolIdle
    /\ CollideIdle
    /\ TermIdle
    /\ UnifyIdle
    /\ SheetIdle
    /\ SingletonIdle

AggRest ==
    <<mergeVars, storeVars, geoVars, limVars, roundVars, cacheVars, poolVars, collideVars, termVars,
      unifyVars, sheetVars, singletonVars>>

\* A pool thread picks up a submitted task.
StartTask(s) ==
    /\ apc = "gather"
    /\ task[s] = "queued"
    /\ Cardinality(Running) < pool_size(ascript)
    /\ task' = [task EXCEPT ![s] = "running"]
    /\ UNCHANGED <<ascript, cond, out, collected, abatch, alog, wlog, apc, AggRest>>

\* The task runs to its end: it returns its records or raises.
FinishTask(s) ==
    /\ task[s] = "running"
    /\ LET r == worker(ascript, s, cond[s])
       IN  /\ task' = [task EXCEPT ![s] = IF r.raised THEN "raised" ELSE "returned"]
           /\ out' = [out EXCEPT ![s] = r.records]
           /\ wlog' = wlog + r.logs
    /\ UNCHANGED <<ascript, cond, collected, abatch, alog, apc, AggRest>>

\* One turn of the as_completed loop: future.result() in try/except.
Collect(s) ==
    /\ apc = "gather"
    /\ s \in Finished \ collected
    /\ collected' = collected \cup {s}
    /\ IF task[s] = "raised"
       THEN /\ alog' = Append(alog, s)
            /\ UNCHANGED abatch
       ELSE /\ abatch' = extend(abatch, out[s])
            /\ UNCHANGED alog
    /\ UNCHANGED <<ascript, cond, task, out, wlog, apc, AggRest>>

\* The loop ends and the executor's with-block is left.
PassBarrier ==
    /\ apc = "gather"
    /\ as_completed_exhausted(collected)
    /\ apc' = IF ascript = "wiki" THEN "write" ELSE "merge"
    /\ UNCHANGED <<ascript, cond, task, out, collected, abatch, alog, wlog, AggRest>>

\* ultra, masonic: the prior dataset file is read and merged with the batch.
ReadPrior ==
    /\ apc = "merge"
    /\ apc' = "write"
    /\ UNCHANGED <<ascript, cond, task, out, collected, abatch, alog, wlog, AggRest>>

\* The dataset file is written.
WriteStore ==
    /\ apc = "write"
    /\ apc' = "done"
    /\ UNCHANGED <<ascript, cond, task, out, collected, abatch, alog, wlog, AggRest>>

NextAgg ==
    \/ \E s \in Sources : StartTask(s)
    \/ \E s \in Sources : FinishTask(s)
    \/ \E s \in Sources : Collect(s)
    \/ PassBarrier
    \/ ReadPrior
    \/ WriteStore

SpecAgg == InitAgg /\ [][NextAgg]_vars

(***************************************************************************)
(* Claims about the pure merge functions (SpecMerge).                      *)
(***************************************************************************)
LinkValues(feats) == {GetLink(f) : f \in Range(feats)}
PresentLinks(feats) == {f.link : f \in {g \in Range(feats) : HasLink(g)}}
RecordsWith(feats, id) == {f \in Range(feats) : HasLink(f) /\ f.link = id}

\* C1 (Retention): after merge(S, B), every record of S whose link value
\* (a missing link counting as a value of its own) is the link value of no
\* record of B is still a record of the result, unchanged.
C1_Retention ==
    fn # "none" =>
        \A i \in 1..Len(old_fc) :
            GetLink(old_fc[i]) \notin LinkValues(new_fc) => old_fc[i] \in Range(merged)

\* C2 (Override, last-write-wins): after merge(S, B), for every link present
\* in B the result holds a record under that link and every record it holds
\* under that link is one B delivered for it, whatever S held.
C2_Override ==
    fn # "none" =>
        \A id \in PresentLinks(new_fc) :
            /\ RecordsWith(merged, id) # {}
            /\ RecordsWith(merged, id) \subseteq RecordsWith(new_fc, id)

\* C3 (Idempotent merge): merge(merge(S, B), B) equals merge(S, B).
C3_Idempotent ==
    fn # "none" => remerged = merged

(***************************************************************************)
(* Claims about the load-merge-persist runs (SpecStore).                   *)
(***************************************************************************)
RunEnded == pc = "idle" /\ runs > 0

\* C4 (No duplicate entries): whenever the dataset file holds a feature
\* collection, no two of its features carry the same link.
C4_NoDuplicateLinks ==
    file.kind = "fc" =>
        \A i, j \in 1..Len(file.features) :
            (HasLink(file.features[i]) /\ file.features[i].link = file.features[j].link)
                => i = j

\* C5 (Monotonic growth): a link that was in the persisted dataset when an
\* earlier run had ended is in the persisted dataset when any later run has
\* ended.
C5_MonotonicGrowth ==
    RunEnded => seenIds \subseteq PersistedIds(file)

\* C6 (Atomic persistence): while a run has not completed, and after a run
\* that was interrupted, the dataset file holds exactly the content it had
\* when the run started.
C6_AtomicPersistence ==
    (pc # "idle" \/ exit = "killed") => file = startFile

\* C7 (Run outcome): a run that ends with a status ends either successfully
\* with a dataset file that is not truncated, or with a failure status and
\* the dataset file exactly as it was when the run started; a write failure
\* always ends with the failure status.
C7_RunOutcome ==
    (RunEnded /\ exit \in {"ok", "fail"}) =>
        \/ exit = "ok" /\ err = "none" /\ file.kind # "truncated"
        \/ exit = "fail" /\ file = startFile

\* C8 (Unreadable prior file is recoverable): a run that found the dataset
\* file missing or unparsable, and whose write neither failed nor was
\* interrupted, ends successfully.
C8_UnreadablePriorRecovered ==
    (RunEnded /\ startFile.kind # "fc" /\ err \notin {"write", "killed", "read_new"})
        => exit = "ok"

(***************************************************************************)
(* Claims about the resolvers (SpecResolve) and what the scripts persist   *)
(* (SpecGeo).                                                              *)
(***************************************************************************)
\* C9 (Coordinate validity): every feature of the persisted dataset that has
\* a geometry has its longitude in [-180, 180] and its latitude in
\* [-90, 90].
C9_CoordinateValidity ==
    \A i \in 1..Len(PersistedFeatures) :
        PersistedFeatures[i].coords # NoCoords =>
            is_valid_coords(PersistedFeatures[i].coords[1], PersistedFeatures[i].coords[2])

SameHintTwice ==
    gscript \in {"ultra", "hybrid"} /\ Len(calls) = 2 /\ calls[1].hint = calls[2].hint
ProviderCalls(call) == call.nom + call.photon

\* C10 (Cache correctness, as stated): of two successive calls of a caching
\* resolver with the same hint, the two together call the providers at most
\* once and the second returns the GeoPoint the first one returned.
C10_CacheCorrectness ==
    SameHintTwice =>
        /\ ProviderCalls(calls[1]) + ProviderCalls(calls[2]) <= 1
        /\ calls[1].result # NoCoords => calls[2].result = calls[1].result

\* C10 (Cache correctness, amended): if a call of a caching resolver
\* returned a GeoPoint, the next call with the same hint calls no provider
\* and returns the same GeoPoint.
C10_CachedPointReused ==
    (SameHintTwice /\ calls[1].result # NoCoords) =>
        /\ ProviderCalls(calls[2]) = 0
        /\ calls[2].result = calls[1].result

\* C10: a hint was resolved by a provider and then answered from the cache.
C10_SecondCallFromCache ==
    /\ SameHintTwice
    /\ calls[1].result # NoCoords
    /\ ProviderCalls(calls[1]) >= 1
    /\ ProviderCalls(calls[2]) = 0
    /\ calls[2].result = calls[1].result

LimitScripts == {"wiki", "ultra", "hybrid"}
MaxTime == 3
REQUEST_DELAY == 1
min_delay_seconds == 1
RATE_LIMIT_CALLS == 50

Request(w, provider, at) == [worker |-> w, provider |-> provider, at |-> at]

\* RateLimiter (geopy): under its lock, a call is granted when none was
\* granted before or min_delay_seconds have passed since the last one.
slot_free(last, clock) == last = -1 \/ clock - last >= min_delay_seconds

\* @limits(calls=RATE_LIMIT_CALLS, period=60): a quota per minute.
quota_free(n) == n < RATE_LIMIT_CALLS

InitLimit ==
    /\ lscript \in LimitScripts
    /\ now = 0
    /\ wpc = [w \in Workers |-> "idle"]
    /\ wake = [w \in Workers |-> 0]
    /\ last_call = -1 /\ used = 0 /\ pcalls = {}
    /\ MergeIdle
    /\ StoreIdle
    /\ GeoIdle
    /\ AggIdle
    /\ RoundIdle
    /\ CacheIdle
    /\ PoolIdle
    /\ CollideIdle
    /\ TermIdle
    /\ UnifyIdle
    /\ SheetIdle
    /\ SingletonIdle

LimitRest ==
    <<mergeVars, storeVars, geoVars, aggVars, roundVars, cacheVars, poolVars, collideVars, termVars,
      unifyVars, sheetVars, singletonVars>>

Tick ==
    /\ now < MaxTime
    /\ now' = now + 1
    /\ UNCHANGED <<lscript, wpc, wake, last_call, used, pcalls, LimitRest>>

\* A thread enters its resolver with a hint that is not cached.
BeginLookup(w) ==
    /\ wpc[w] = "idle"
    /\ IF lscript = "wiki"
       THEN /\ wpc' = [wpc EXCEPT ![w] = "sleep_photon"]
            /\ wake' = [wake EXCEPT ![w] = now + REQUEST_DELAY]
       ELSE /\ wpc' = [wpc EXCEPT ![w] = "nominatim"]
            /\ UNCHANGED wake
    /\ UNCHANGED <<lscript, now, last_call, used, pcalls, LimitRest>>

\* wiki: the thread's own time.sleep(REQUEST_DELAY) is over; it sends its
\* request, to Photon first and to Nominatim when Photon found nothing.
WikiRequest(w) ==
    /\ lscript = "wiki"
    /\ wpc[w] \in {"sleep_photon", "sleep_nominatim"}
    /\ now >= wake[w]
    /\ LET provider == IF wpc[w] = "sleep_photon" THEN "photon" ELSE "nominatim"
       IN  pcalls' = pcalls \cup {Request(w, provider, now)}
    /\ \E found \in BOOLEAN :
         IF wpc[w] = "sleep_photon" /\ ~found
         THEN /\ wpc' = [wpc EXCEPT ![w] = "sleep_nominatim"]
              /\ wake' = [wake EXCEPT ![w] = now + REQUEST_DELAY]
         ELSE /\ wpc' = [wpc EXCEPT ![w] = "done"]
              /\ UNCHANGED wake
    /\ UNCHANGED <<lscript, now, last_call, used, LimitRest>>

\* ultra, hybrid: geocode(...) through the shared RateLimiter.
NominatimRequest(w) ==
    /\ lscript \in {"ultra", "hybrid"}
    /\ wpc[w] = "nominatim"
    /\ slot_free(last_call, now)
    /\ last_call' = now
    /\ pcalls' = pcalls \cup {Request(w, "nominatim", now)}
    /\ \E found \in BOOLEAN :
         wpc' = [wpc EXCEPT ![w] = IF found THEN "done" ELSE "photon"]
    /\ UNCHANGED <<lscript, now, wake, used, LimitRest>>

\* ultra: session.get(...) at once; hybrid: safe_requests_get(...).
PhotonRequest(w) ==
    /\ lscript \in {"ultra", "hybrid"}
    /\ wpc[w] = "photon"
    /\ IF lscript = "hybrid"
       THEN quota_free(used) /\ used' = used + 1
       ELSE UNCHANGED used
    /\ pcalls' = pcalls \cup {Request(w, "photon", now)}
    /\ wpc' = [wpc EXCEPT ![w] = "done"]
    /\ UNCHANGED <<lscript, now, wake, last_call, LimitRest>>

NextLimit ==
    \/ Tick
    \/ \E w \in Workers : BeginLookup(w)
    \/ \E w \in Workers : WikiRequest(w)
    \/ \E w \in Workers : NominatimRequest(w)
    \/ \E w \in Workers : PhotonRequest(w)

SpecLimit == InitLimit /\ [][NextLimit]_vars

(***************************************************************************)
(* SpecRound: a dataset is written as a feature collection and the file is *)
(* read back.  A record is [link, coords, priority]; coords is NoCoords    *)
(* when the record has no location.                                        *)
(***************************************************************************)
RoundScripts == {"masonic", "notebook", "hybrid"}
MaxItems == 2

\* Datasets: up to MaxItems records with distinct links.
Datasets ==
    {d \in SeqsUpTo({Record(l, c, 1) : l \in GeoLinks, c \in MetaCoords}, MaxItems) :
        \A i, j \in 1..Len(d) : i # j => d[i].link # d[j].link}

\* One feature of a file: its properties bag and its geometry.
GeoFeature(props, geometry) == [properties |-> props, geometry |-> geometry]

\* masonic save_merged_geojson: json.dump of the Feature objects as they are.
RECURSIVE dump_features(_)
dump_features(d) ==
    IF d = <<>> THEN <<>>
    ELSE <<GeoFeature([link |-> Head(d).link, priority |-> Head(d).priority], Head(d).coords)>>
             \o dump_features(Tail(d))

\* notebook generate_geojson: items with lat and lon only; the properties
\* are title, description, published and image_url.
RECURSIVE generate_geojson(_)
generate_geojson(d) ==
    IF d = <<>> THEN <<>>
    ELSE (IF Head(d).coords # NoCoords
          THEN <<GeoFeature([link |-> NoLink, priority |-> Head(d).priority], Head(d).coords)>>
          ELSE <<>>) \o generate_geojson(Tail(d))

\* hybrid export_data, GeoJSON part: objects with latitude and longitude
\* only; the properties are a copy of the object.
RECURSIVE export_data(_)
export_data(d) ==
    IF d = <<>> THEN <<>>
    ELSE (IF Head(d).coords # NoCoords
          THEN <<GeoFeature([link |-> Head(d).link, priority |-> Head(d).priority], Head(d).coords)>>
          ELSE <<>>) \o export_data(Tail(d))

\* Reading the features of a file back into records.
RECURSIVE read_features(_)
read_features(feats) ==
    IF feats = <<>> THEN <<>>
    ELSE <<Record(GetLinkOrEmpty(Head(feats).properties), Head(feats).geometry,
                  Head(feats).properties.priority)>> \o read_features(Tail(feats))

InitRound ==
    /\ rscript \in RoundScripts
    /\ dataset \in Datasets
    /\ rfile = Absent /\ readback = <<>> /\ rpc = "start"
    /\ MergeIdle
    /\ StoreIdle
    /\ GeoIdle
    /\ AggIdle
    /\ LimIdle
    /\ CacheIdle
    /\ PoolIdle
    /\ CollideIdle
    /\ TermIdle
    /\ UnifyIdle
    /\ SheetIdle
    /\ SingletonIdle

RoundRest ==
    <<mergeVars, storeVars, geoVars, aggVars, limVars, cacheVars, poolVars, collideVars, termVars,
      unifyVars, sheetVars, singletonVars>>

Written(feats) ==
    /\ rpc = "start"
    /\ rfile' = FC(feats)
    /\ rpc' = "written"
    /\ UNCHANGED <<rscript, dataset, readback, RoundRest>>

SaveMergedGeojson == rscript = "masonic" /\ Written(dump_features(dataset))
GenerateGeojson == rscript = "notebook" /\ Written(generate_geojson(dataset))
ExportData == rscript = "hybrid" /\ Written(export_data(dataset))

ReadBack ==
    /\ rpc = "written"
    /\ readback' = read_features(load_old_geojson(rfile))
    /\ rpc' = "read"
    /\ UNCHANGED <<rscript, dataset, rfile, RoundRest>>

NextRound ==
    \/ SaveMergedGeojson
    \/ GenerateGeojson
    \/ ExportData
    \/ ReadBack

SpecRound == InitRound /\ [][NextRound]_vars

(***************************************************************************)
(* SpecWiki: articles are processed, saved to wikipedia_data.json (by      *)
(* wikipedia_scraper.py or by masonic_analysis/wikipedia_scraper.py) and   *)
(* turned into a feature collection by create_wikipedia_geojson.py.  An    *)
(* article is a Record whose link stands for its title and whose coords    *)
(* are (latitude, longitude); every article has a summary.                 *)
(***************************************************************************)
WikiScripts == {"wiki", "hybrid"}
\* (lat, lon) pairs get_coords_from_wikidata answers with.
WikidataCoords == {NoCoords, <<40, -3>>}
\* lat, lon = 0.0, 0.0
Placeholder == <<0, 0>>

\* process_article of wikipedia_scraper.py, lines 554-566.
article_coords(wikidata, resolved) ==
    LET found == IF wikidata # NoCoords THEN wikidata ELSE resolved
    IN  IF found = NoCoords THEN Placeholder ELSE found

\* create_geojson_from_wikipedia: latitude and longitude when both are
\* numbers, else geocode_location(title), else (0, 0); Point((lon, lat)).
RECURSIVE create_geojson_from_wikipedia(_, _)
create_geojson_from_wikipedia(data, resps) ==
    IF data = <<>> THEN <<>>
    ELSE LET entry == Head(data)
             latlon == IF entry.coords # NoCoords THEN entry.coords
                       ELSE geocode_location(entry.link, Head(resps), EmptyCache).result
             point == IF latlon = NoCoords THEN Placeholder ELSE latlon
         IN  <<Record(entry.link, <<point[2], point[1]>>, entry.priority)>>
                 \o create_geojson_from_wikipedia(Tail(data), Tail(resps))

InitWiki ==
    /\ gscript \in WikiScripts
    /\ gpc = "work" /\ gruns = 1
    /\ cache = EmptyCache /\ others = 0
    /\ calls = <<>> /\ ncalls = 0
    /\ results = <<>> /\ stored = <<>> /\ written = FALSE
    /\ MergeIdle
    /\ StoreIdle
    /\ ConcIdle

\* process_article of wikipedia_scraper.py: Wikidata coordinates, else the
\* infobox place through enhanced_geocoding, else the placeholder.
ProcessWikiArticle ==
    /\ gscript = "wiki" /\ gpc = "work" /\ Len(results) < MaxEntries
    /\ \E l \in GeoLinks, wikidata \in WikidataCoords, h \in EntryHints :
        IF wikidata # NoCoords \/ h = ""
        THEN /\ results' = Append(results, Record(l, article_coords(wikidata, NoCoords), 0))
             /\ UNCHANGED cache
        ELSE \E b \in Behaviours :
             LET ret == enhanced_geocoding(h, b.nom, b.photon, cache) IN
             /\ results' = Append(results, Record(l, article_coords(wikidata, ret.result), 0))
             /\ cache' = ret.cache
    /\ UNCHANGED <<gscript, gpc, gruns, others, calls, ncalls, stored, written, mergeVars, storeVars, concVars>>

\* main: json.dump(all_articles) to wikipedia_data.json; the hybrid script
\* writes merge_data(old_data, new_data) to the file of the same name.
SaveArticles ==
    /\ gpc = "work" /\ results # <<>>
    /\ results' = IF gscript = "hybrid" THEN merge_data(<<>>, results) ELSE results
    /\ gpc' = "saved"
    /\ UNCHANGED <<gscript, gruns, cache, others, calls, ncalls, stored, written, mergeVars, storeVars, concVars>>

\* main of create_wikipedia_geojson.py.
CreateGeojson ==
    /\ gpc = "saved"
    /\ \E resps \in [1..Len(results) -> NominatimResponses] :
        stored' = create_geojson_from_wikipedia(results, resps)
    /\ written' = TRUE
    /\ gpc' = "exported"
    /\ UNCHANGED <<gscript, gruns, cache, others, calls, ncalls, results, mergeVars, storeVars, concVars>>

NextWiki ==
    \/ ProcessWikiArticle
    \/ ProcessArticle
    \/ SaveArticles
    \/ CreateGeojson

SpecWiki == InitWiki /\ [][NextWiki]_vars

(***************************************************************************)
(* SpecHints: one process locates entries that carry several hints: the    *)
(* entry's own coordinates (geo_lat, geo_long) and the location texts      *)
(* found in it, in the order the code tries them.                          *)
(***************************************************************************)
HintScripts == {"ultra", "masonic"}
MaxHints == 2
TextHints == SeqsUpTo(Hints, MaxHints)

\* The providers' behaviour for the text hints of one entry: Nominatim
\* answers, Photon finds nothing.
HintBehaviours == {b \in Behaviours : \A i \in 1..photon_retries : b.photon[i] = Unasked}

\* One attempt on one hint: what it was and what it gave.
Attempt(kind, coords) == [kind |-> kind, coords |-> coords]
Located(coords, c, attempts) == [coords |-> coords, cache |-> c, attempts |-> attempts]

\* content_location of M357_MAP.py: enhanced_geocode on each match in
\* order; the first result that is not None is returned.
RECURSIVE content_location(_, _, _, _, _)
content_location(texts, bs, c, o, tried) ==
    IF texts = <<>> THEN Located(NoCoords, c, tried)
    ELSE LET ret == enhanced_geocode(Head(texts), Head(bs).nom, Head(bs).photon, c, o)
             now_tried == Append(tried, Attempt("text", ret.result))
         IN  IF ret.result # NoCoords
             THEN Located(ret.result, ret.cache, now_tried)
             ELSE content_location(Tail(texts), Tail(bs), ret.cache, o, now_tried)

\* process_feed_entry, lines 193-197: metadata_location, then
\* content_location; the first strategy that gives coordinates ends the loop.
ultra_locate(meta, texts, bs, c, o) ==
    IF meta = NoCoords THEN content_location(texts, bs, c, o, <<>>)
    ELSE IF metadata_location(meta) # NoCoords
    THEN Located(meta, c, <<Attempt("meta", meta)>>)
    ELSE content_location(texts, bs, c, o, <<Attempt("meta", meta)>>)

\* advanced_extract_location, steps 1 to 3 on the entry's texts: each goes
\* through geocode_text, and the first result other than (None, None) is
\* returned.
RECURSIVE extract_location_from_texts(_, _, _, _)
extract_location_from_texts(texts, bs, c, tried) ==
    IF texts = <<>> THEN Located(NoCoords, c, tried)
    ELSE LET ret == geocode_text(Head(texts), Head(bs).nom, Head(bs).photon, c)
             now_tried == Append(tried, Attempt("text", ret.result))
         IN  IF ret.result # NoCoords
             THEN Located(ret.result, c, now_tried)
             ELSE extract_location_from_texts(Tail(texts), Tail(bs), c, now_tried)

\* advanced_extract_location of masonic_analysis/M357_MAP.py followed by
\* the validation of process_entry: geo_lat / geo_long are returned as
\* they are.
advanced_extract_location(meta, texts, bs, c) ==
    LET found == IF meta # NoCoords
                 THEN Located(meta, c, <<Attempt("meta", meta)>>)
                 ELSE extract_location_from_texts(texts, bs, c, <<>>)
    IN  Located(masonic_geometry(found.coords), found.cache, found.attempts)

InitHints ==
    /\ gscript \in HintScripts
    /\ gpc = "work" /\ gruns = 1
    /\ cache = EmptyCache /\ others = 0
    /\ calls = <<>> /\ ncalls = 0
    /\ results = <<>> /\ stored = <<>> /\ written = FALSE
    /\ MergeIdle
    /\ StoreIdle
    /\ ConcIdle

\* The entry has been located: the log keeps the last entry.
LocatedEntry(meta, texts, loc) ==
    /\ calls' = <<[hints |-> (IF meta = NoCoords THEN 0 ELSE 1) + Len(texts),
                   attempts |-> loc.attempts, coords |-> loc.coords]>>
    /\ cache' = loc.cache
    /\ ncalls' = ncalls + 1
    /\ UNCHANGED <<gscript, gpc, gruns, others, results, stored, written, mergeVars, storeVars, concVars>>

LocateFeedEntry ==
    /\ gscript = "ultra" /\ ncalls < MaxCalls
    /\ \E meta \in MetaCoords, texts \in TextHints :
         \E bs \in [1..Len(texts) -> HintBehaviours] :
            LocatedEntry(meta, texts, ultra_locate(meta, texts, bs, cache, others))

LocateEntry ==
    /\ gscript = "masonic" /\ ncalls < MaxCalls
    /\ \E meta \in MetaCoords, texts \in TextHints :
         \E bs \in [1..Len(texts) -> HintBehaviours] :
            LocatedEntry(meta, texts, advanced_extract_location(meta, texts, bs, cache))

NextHints ==
    \/ ResolveOtherHints
    \/ LocateFeedEntry
    \/ LocateEntry

SpecHints == InitHints /\ [][NextHints]_vars

(***************************************************************************)
(* SpecKeys: one process resolves hints that differ as texts but have the  *)
(* same canonical form.                                                    *)
(***************************************************************************)
KeyScripts == {"ultra", "wiki"}
RawHints == Hints \cup {"Madrid (city)"}

\* enhanced_geocoding, lines 348-349: re.sub(r"\(.*?\)", "", s).strip() and
\* unidecode, on the texts of RawHints.
clean_place(h) == IF h = "Madrid (city)" THEN "Madrid" ELSE h

InitKeys ==
    /\ gscript \in KeyScripts
    /\ gpc = "work" /\ gruns = 1
    /\ cache = [h \in RawHints |-> NoCoords] /\ others = 0
    /\ calls = <<>> /\ ncalls = 0
    /\ results = <<>> /\ stored = <<>> /\ written = FALSE
    /\ MergeIdle
    /\ StoreIdle
    /\ ConcIdle

\* enhanced_geocode reads and writes geo_cache under location_text itself.
ResolveRawHint ==
    /\ gscript = "ultra" /\ ncalls < MaxCalls
    /\ \E h \in RawHints, b \in HintBehaviours :
        Resolved(h, enhanced_geocode(h, b.nom, b.photon, cache, others),
                 thrown(gscript, h, b.nom, b.photon, cache, others), b)

\* enhanced_geocoding reads and writes the cache under place_name itself;
\* clean_place goes to the providers only.
ResolveRawPlace ==
    /\ gscript = "wiki" /\ ncalls < MaxCalls
    /\ \E h \in RawHints, b \in HintBehaviours :
        Resolved(h, enhanced_geocoding(h, b.nom, b.photon, cache),
                 thrown(gscript, h, b.nom, b.photon, cache, others), b)

NextKeys ==
    \/ ResolveRawHint
    \/ ResolveRawPlace

SpecKeys == InitKeys /\ [][NextKeys]_vars

(***************************************************************************)
(* SpecCache: the threads of wikipedia_scraper.py write entries (locations *)
(* or articles) to the JSON cache file.  CacheManager.set_* is load_json,  *)
(* an assignment in the loaded dict, and save_json, which opens the file   *)
(* for writing (truncating it) and dumps the dict.                         *)
(***************************************************************************)
CacheKeys == {"k1", "k2", "k3"}
MaxSets == 3

CacheFile(kind, keys) == [kind |-> kind, keys |-> keys]

\* load_json: no file, or a file that does not parse, gives an empty cache.
load_json(f) == IF f.kind = "json" THEN f.keys ELSE {}

\* c[...][key] = value; CacheManager.save_json(c)
save_json(f, loaded, key) == loaded \cup {key}

InitCache ==
    /\ cfile = CacheFile("absent", {})
    /\ cpc = [w \in Workers |-> "idle"]
    /\ ckey = [w \in Workers |-> ""]
    /\ cloaded = [w \in Workers |-> {}]
    /\ cdone = {}
    /\ MergeIdle
    /\ StoreIdle
    /\ GeoIdle
    /\ AggIdle
    /\ LimIdle
    /\ RoundIdle
    /\ PoolIdle
    /\ CollideIdle
    /\ TermIdle
    /\ UnifyIdle
    /\ SheetIdle
    /\ SingletonIdle

CacheRest ==
    <<mergeVars, storeVars, geoVars, aggVars, limVars, roundVars, poolVars, collideVars, termVars,
      unifyVars, sheetVars, singletonVars>>

\* A thread enters set_location / set_article with a key not written yet
\* and loads the file.
CacheLoad(w) ==
    /\ cpc[w] = "idle"
    /\ Cardinality(cdone) + Cardinality({v \in Workers : cpc[v] # "idle"}) < MaxSets
    /\ \E k \in CacheKeys \ (cdone \cup {ckey[v] : v \in Workers}) :
         ckey' = [ckey EXCEPT ![w] = k]
    /\ cloaded' = [cloaded EXCEPT ![w] = load_json(cfile)]
    /\ cpc' = [cpc EXCEPT ![w] = "loaded"]
    /\ UNCHANGED <<cfile, cdone, CacheRest>>

\* save_json: open(config.JSON_CACHE_FILE, "w").
CacheOpen(w) ==
    /\ cpc[w] = "loaded"
    /\ cfile' = CacheFile("truncated", {})
    /\ cpc' = [cpc EXCEPT ![w] = "opened"]
    /\ UNCHANGED <<ckey, cloaded, cdone, CacheRest>>

\* save_json: json.dump(cache, f); the set call returns.
CacheDump(w) ==
    /\ cpc[w] = "opened"
    /\ cfile' = CacheFile("json", save_json(cfile, cloaded[w], ckey[w]))
    /\ cdone' = cdone \cup {ckey[w]}
    /\ cpc' = [cpc EXCEPT ![w] = "idle"]
    /\ ckey' = [ckey EXCEPT ![w] = ""]
    /\ cloaded' = [cloaded EXCEPT ![w] = {}]
    /\ UNCHANGED CacheRest

NextCache ==
    \/ \E w \in Workers : CacheLoad(w)
    \/ \E w \in Workers : CacheOpen(w)
    \/ \E w \in Workers : CacheDump(w)

SpecCache == InitCache /\ [][NextCache]_vars

(***************************************************************************)
(* SpecPool: the tasks submitted to the executor of main, one per source   *)
(* (feed, or keyword and language pair), counted by their state.           *)
(***************************************************************************)
PoolScripts == {"ultra", "masonic", "wiki", "hybrid"}
NumDescriptors == 9
MaxArticles == 2
Cpus == {1, 4}

\* ThreadPoolExecutor() without max_workers: min(32, os.cpu_count() + 4).
default_max_workers(cpus) == IF cpus + 4 < 32 THEN cpus + 4 ELSE 32

\* The size of the pool main creates.
executor_size(scr, cpus) ==
    CASE scr \in {"ultra", "masonic"} -> max_workers
      [] scr = "wiki" -> MAX_WORKERS
      [] OTHER -> default_max_workers(cpus)

InitPool ==
    /\ pscript \in PoolScripts
    /\ pcpus \in Cpus
    /\ pqueued = NumDescriptors /\ prunning = 0 /\ pdone = 0 /\ particles = 0
    /\ MergeIdle
    /\ StoreIdle
    /\ GeoIdle
    /\ AggIdle
    /\ LimIdle
    /\ RoundIdle
    /\ CacheIdle
    /\ CollideIdle
    /\ TermIdle
    /\ UnifyIdle
    /\ SheetIdle
    /\ SingletonIdle

PoolRest ==
    <<mergeVars, storeVars, geoVars, aggVars, limVars, roundVars, cacheVars, collideVars, termVars,
      unifyVars, sheetVars, singletonVars>>

\* A free pool thread picks up a submitted task.
PoolStart ==
    /\ pqueued > 0
    /\ prunning < executor_size(pscript, pcpus)
    /\ pqueued' = pqueued - 1
    /\ prunning' = prunning + 1
    /\ UNCHANGED <<pscript, pcpus, pdone, particles, PoolRest>>

\* wiki: a running process_language_keyword task has its own executor of
\* MAX_WORKERS threads, which starts a process_article task.
ArticleStart ==
    /\ pscript = "wiki"
    /\ particles < MaxArticles
    /\ particles < prunning * MAX_WORKERS
    /\ particles' = particles + 1
    /\ UNCHANGED <<pscript, pcpus, pqueued, prunning, pdone, PoolRest>>

ArticleEnd ==
    /\ particles > 0
    /\ particles' = particles - 1
    /\ UNCHANGED <<pscript, pcpus, pqueued, prunning, pdone, PoolRest>>

\* A task ends, its own article tasks having ended.
PoolEnd ==
    /\ prunning > 0
    /\ particles <= (prunning - 1) * MAX_WORKERS
    /\ prunning' = prunning - 1
    /\ pdone' = pdone + 1
    /\ UNCHANGED <<pscript, pcpus, pqueued, particles, PoolRest>>

NextPool ==
    \/ PoolStart
    \/ ArticleStart
    \/ ArticleEnd
    \/ PoolEnd

SpecPool == InitPool /\ [][NextPool]_vars

(***************************************************************************)
(* SpecCollide: one run of a feed script in which every source yields one  *)
(* record and several sources yield the same link.  The record's title     *)
(* names the source it came from.                                          *)
(***************************************************************************)
CollideScripts == {"ultra", "masonic"}
CollideLinks == {"a", "b"}
SourceTitle(s) == <<"S1", "S2", "S3">>[s]
Priors == {<<>>, <<Feature("a", "Old")>>}

\* The future's result: the features of source s.
future_result(s) == <<Feature(klink[s], SourceTitle(s))>>

\* save_merged_geojson / merge_geojson_data applied to the gathered batch.
store_batch(scr, prior, new) ==
    IF scr = "masonic" THEN merge_features(prior, new)
    ELSE merge_geojson_features(prior, new)

Completed == Range(korder)
Yielded == Range(kyielded)

InitCollide ==
    /\ kscript \in CollideScripts
    /\ klink \in [Sources -> CollideLinks]
    /\ kprior \in Priors
    /\ korder = <<>> /\ kearly = {} /\ kyielded = <<>>
    /\ kbatch = <<>> /\ kmerged = <<>>
    /\ kpc = "submit"
    /\ MergeIdle
    /\ StoreIdle
    /\ GeoIdle
    /\ AggIdle
    /\ LimIdle
    /\ RoundIdle
    /\ CacheIdle
    /\ PoolIdle
    /\ TermIdle
    /\ UnifyIdle
    /\ SheetIdle
    /\ SingletonIdle

CollideRest ==
    <<mergeVars, storeVars, geoVars, aggVars, limVars, roundVars, cacheVars, poolVars, termVars,
      unifyVars, sheetVars, singletonVars>>

\* The task of source s completes.
TaskCompletes(s) ==
    /\ kscript # "none"
    /\ s \notin Completed
    /\ korder' = Append(korder, s)
    /\ UNCHANGED <<kscript, klink, kprior, kearly, kyielded, kbatch, kmerged, kpc, CollideRest>>

\* The main thread enters as_completed(futures): the futures that are
\* already finished are set aside, to be yielded first.
EnterAsCompleted ==
    /\ kpc = "submit"
    /\ kearly' = Completed
    /\ kpc' = "gather"
    /\ UNCHANGED <<kscript, klink, kprior, korder, kyielded, kbatch, kmerged, CollideRest>>

\* as_completed yields the next future: the futures set aside come out in
\* the iteration order of a set, the others in the order they complete.
next_yield(s) ==
    IF kearly \ Yielded # {}
    THEN s \in kearly \ Yielded
    ELSE /\ Len(korder) > Len(kyielded)
         /\ s = korder[Len(kyielded) + 1]

\* all_feats.extend(future.result())
Yield(s) ==
    /\ kpc = "gather"
    /\ next_yield(s)
    /\ kyielded' = Append(kyielded, s)
    /\ kbatch' = extend(kbatch, future_result(s))
    /\ UNCHANGED <<kscript, klink, kprior, korder, kearly, kmerged, kpc, CollideRest>>

\* The batch is merged with the dataset file and written.
StoreBatch ==
    /\ kpc = "gather"
    /\ Yielded = Sources
    /\ kmerged' = store_batch(kscript, kprior, kbatch)
    /\ kpc' = "done"
    /\ UNCHANGED <<kscript, klink, kprior, korder, kearly, kyielded, kbatch, CollideRest>>

NextCollide ==
    \/ \E s \in Sources : TaskCompletes(s)
    \/ EnterAsCompleted
    \/ \E s \in Sources : Yield(s)
    \/ StoreBatch

SpecCollide == InitCollide /\ [][NextCollide]_vars

(***************************************************************************)
(* SpecTerm: one run from the submission of its tasks to the merge step.   *)
(* A source's server either answers ("ok"), never answers ("stuck"), or    *)
(* answers every search page with a further 'continue' offset ("endless"); *)
(* a feed server that is "endless" answers like one that is "ok".          *)
(***************************************************************************)
TermScripts == {"ultra", "masonic", "hybrid"}
ServerKinds == {"ok", "stuck", "endless"}
SRESULTS_PER_PAGE == 50
MaxPages == 2

\* ultra: requests.get(feed_url, timeout=15); hybrid: safe_requests_get
\* with timeout=Config.REQUEST_TIMEOUT; masonic: feedparser.parse(feed_url)
\* opens the URL itself and is given no timeout.
fetch_has_timeout(scr) == scr # "masonic"

InitTerm ==
    /\ tscript \in TermScripts
    /\ tsource \in [Sources -> ServerKinds]
    /\ ttask = [s \in Sources |-> "queued"]
    /\ sroffset = [s \in Sources |-> 0]
    /\ tgot = {}
    /\ tpc = "gather"
    /\ MergeIdle
    /\ StoreIdle
    /\ GeoIdle
    /\ AggIdle
    /\ LimIdle
    /\ RoundIdle
    /\ CacheIdle
    /\ PoolIdle
    /\ CollideIdle
    /\ UnifyIdle
    /\ SheetIdle
    /\ SingletonIdle

TermRest ==
    <<mergeVars, storeVars, geoVars, aggVars, limVars, roundVars, cacheVars, poolVars, collideVars,
      unifyVars, sheetVars, singletonVars>>

\* A pool thread picks up the task and sends its first request.
TaskBegins(s) ==
    /\ tscript # "none"
    /\ ttask[s] = "queued"
    /\ ttask' = [ttask EXCEPT ![s] = "fetching"]
    /\ UNCHANGED <<tscript, tsource, sroffset, tgot, tpc, TermRest>>

\* The server answers and the task has no further request to send: the
\* feed is parsed, or the search answer has no 'continue'.
FetchAnswered(s) ==
    /\ ttask[s] = "fetching"
    /\ \/ tsource[s] = "ok"
       \/ tsource[s] = "endless" /\ tscript # "hybrid"
    /\ ttask' = [ttask EXCEPT ![s] = "returned"]
    /\ UNCHANGED <<tscript, tsource, sroffset, tgot, tpc, TermRest>>

\* advanced_wiki_search: the answer holds a batch and a 'continue' offset;
\* the while True loop asks for the next page.  The loop has no page limit;
\* the offset is followed up to MaxPages pages here, and a task that has
\* reached that offset is a task that is still paging.
NextPage(s) ==
    /\ tscript = "hybrid"
    /\ ttask[s] = "fetching"
    /\ tsource[s] = "endless"
    /\ sroffset[s] < MaxPages * SRESULTS_PER_PAGE
    /\ sroffset' = [sroffset EXCEPT ![s] = sroffset[s] + SRESULTS_PER_PAGE]
    /\ UNCHANGED <<tscript, tsource, ttask, tgot, tpc, TermRest>>

\* The request's timeout expires.  ultra: the exception leaves process_feed;
\* hybrid: it is caught in the loop, which breaks and returns the articles.
FetchTimesOut(s) ==
    /\ ttask[s] = "fetching"
    /\ tsource[s] = "stuck"
    /\ fetch_has_timeout(tscript)
    /\ ttask' = [ttask EXCEPT ![s] = IF tscript = "ultra" THEN "raised" ELSE "returned"]
    /\ UNCHANGED <<tscript, tsource, sroffset, tgot, tpc, TermRest>>

\* as_completed yields a finished future.
TermCollect(s) ==
    /\ tpc = "gather"
    /\ ttask[s] \in {"returned", "raised"}
    /\ s \notin tgot
    /\ tgot' = tgot \cup {s}
    /\ UNCHANGED <<tscript, tsource, ttask, sroffset, tpc, TermRest>>

\* Every future has been yielded: the with-block is left.
TermBarrier ==
    /\ tpc = "gather"
    /\ as_completed_exhausted(tgot)
    /\ tpc' = "merge"
    /\ UNCHANGED <<tscript, tsource, ttask, sroffset, tgot, TermRest>>

\* The merge step runs and the run ends.
TermMerge ==
    /\ tpc = "merge"
    /\ tpc' = "done"
    /\ UNCHANGED <<tscript, tsource, ttask, sroffset, tgot, TermRest>>

NextTerm ==
    \/ \E s \in Sources : TaskBegins(s)
    \/ \E s \in Sources : FetchAnswered(s)
    \/ \E s \in Sources : NextPage(s)
    \/ \E s \in Sources : FetchTimesOut(s)
    \/ \E s \in Sources : TermCollect(s)
    \/ TermBarrier
    \/ TermMerge

\* Threads that can take a step take it, servers that answer do answer,
\* and a timeout that is set expires.
FairTerm ==
    /\ \A s \in Sources :
          /\ WF_vars(TaskBegins(s))
          /\ WF_vars(FetchAnswered(s))
          /\ WF_vars(NextPage(s))
          /\ WF_vars(FetchTimesOut(s))
          /\ WF_vars(TermCollect(s))
    /\ WF_vars(TermBarrier)
    /\ WF_vars(TermMerge)

SpecTerm == InitTerm /\ [][NextTerm]_vars /\ FairTerm

(***************************************************************************)
(* SpecMergeData: merge_data of masonic_analysis/wikipedia_scraper.py on   *)
(* the stored list of a previous run and the results of this run.  An      *)
(* item is a Record whose link is its key (lang, pageid) and whose coords  *)
(* field holds the keyword it was found with ("stored" for a stored item). *)
(***************************************************************************)
Langs == {"en", "es"}
PageIds == {1, 2}
Keywords == {"kw1", "kw2"}
MaxArts == 2

\* key = f"{item.get('lang','')}_{item.get('pageid','')}"
item_key(lang, pageid) == <<lang, pageid>>
ItemKeys == {item_key("en", 1), item_key("en", 2), item_key("es", 1)}

StoredItems == {Record(k, "stored", p) : k \in ItemKeys, p \in Priorities}
FoundItems == {Record(k, kw, p) : k \in ItemKeys, kw \in Keywords, p \in Priorities}

UniqueKeys(items) == \A i, j \in 1..Len(items) : items[i].link = items[j].link => i = j
\* compute_priority depends on the title only: one page, one priority.
OnePriorityPerPage(items) ==
    \A i, j \in 1..Len(items) :
        items[i].link = items[j].link => items[i].priority = items[j].priority

\* OUTPUT_JSON as a previous run's merge_data left it.
OldData == {d \in SeqsUpTo(StoredItems, MaxArts) : UniqueKeys(d)}
\* results: the processed articles of every (keyword, language) search.
NewData == {d \in SeqsUpTo(FoundItems, MaxArts) : OnePriorityPerPage(d)}

InitMergeData ==
    /\ old_fc \in OldData
    /\ new_fc \in NewData
    /\ fn = "none"
    /\ merged = <<>>
    /\ remerged = <<>>
    /\ StoreIdle
    /\ GeoIdle
    /\ ConcIdle

\* final_merged = merge_data(old_data, results)
ApplyMergeData ==
    /\ fn = "none"
    /\ fn' = "merge_data"
    /\ merged' = merge_data(old_fc, new_fc)
    /\ UNCHANGED <<old_fc, new_fc, remerged, storeVars, geoVars, concVars>>

NextMergeData == ApplyMergeData

SpecMergeData == InitMergeData /\ [][NextMergeData]_vars

(***************************************************************************)
(* SpecUnify: unify_data of masonic_analysis/google_sheets_scraper on the  *)
(* sheet rows, the alert properties and the fixed wikipedia item.  An item *)
(* is a Feature: its link and a title that tells where it came from.       *)
(***************************************************************************)
MaxRows == 2
WikiLink == "https://wikipedia.org/masoneria"
UnifyLinks == {"a", WikiLink, "", NoLink}
SheetRows == {Feature(l, t) : l \in UnifyLinks, t \in {"sheet1", "sheet2"}}
AlertProps == {Feature(l, "alert") : l \in UnifyLinks}
\* main, lines 103-106
wikipedia_data == <<Feature(WikiLink, "wiki")>>

\* "if link": None and "" are false.
truthy(link) == link # PyNone /\ link # ""

RECURSIVE unique_data(_, _)
unique_data(combined_data, seen_links) ==
    IF combined_data = <<>> THEN <<>>
    ELSE LET item == Head(combined_data)
             link == GetLink(item)
         IN  IF truthy(link) /\ link \notin seen_links
             THEN <<item>> \o unique_data(Tail(combined_data), seen_links \cup {link})
             ELSE unique_data(Tail(combined_data), seen_links)

unify_data_concat(sheets, alerts, wikipedia) == sheets \o alerts \o wikipedia

unify_data(sheets, alerts, wikipedia) == unique_data(sheets \o alerts \o wikipedia, {})

InitUnify ==
    /\ google_sheets_data \in SeqsUpTo(SheetRows, MaxRows)
    /\ alerts_data \in SeqsUpTo(AlertProps, MaxRows)
    /\ unified_data = <<>>
    /\ upc = "read"
    /\ MergeIdle
    /\ StoreIdle
    /\ GeoIdle
    /\ AggIdle
    /\ LimIdle
    /\ RoundIdle
    /\ CacheIdle
    /\ PoolIdle
    /\ CollideIdle
    /\ TermIdle
    /\ SheetIdle
    /\ SingletonIdle

UnifyRest ==
    <<mergeVars, storeVars, geoVars, aggVars, limVars, roundVars, cacheVars, poolVars,
      collideVars, termVars, sheetVars, singletonVars>>

\* unified_data = unify_data(google_sheets_data, alerts_data, wikipedia_data)
UnifyData ==
    /\ upc = "read"
    /\ unified_data' = unify_data(google_sheets_data, alerts_data, wikipedia_data)
    /\ upc' = "unified"
    /\ UNCHANGED <<google_sheets_data, alerts_data, UnifyRest>>

NextUnify == UnifyData

SpecUnify == InitUnify /\ [][NextUnify]_vars

(***************************************************************************)
(* SpecSheet: main of google_sheets_scraper/scraper.py.  A scrape result   *)
(* is reduced to its first member: the page title, here the URL it was     *)
(* scraped from, or "Error".                                               *)
(***************************************************************************)
MaxSheetRows == 3
SheetUrls == {"u1", "u2"}
\* a cell of column J: a URL or blank
ColumnCells == SheetUrls \cup {""}

\* [url for url in worksheet.col_values(10)[1:] if url.strip()]
nonblank(col) == SelectSeq(col, LAMBDA url : url # "")

\* scrape_and_process(url)[0]
scrape_and_process(url, outcome) == IF outcome[url] = "ok" THEN url ELSE "Error"

\* row = idx + 2, idx counting from 0: the k-th result goes to row k + 1.
row_of(k) == k + 1

\* The Cell objects of column A, one per result that is not an Error.
title_cells(res) ==
    {[row |-> row_of(k), value |-> res[k]] : k \in {j \in 1..Len(res) : res[j] # "Error"}}

InitSheet ==
    /\ column_J \in SeqsUpTo(ColumnCells, MaxSheetRows)
    /\ page \in [SheetUrls -> {"ok", "Error"}]
    /\ urls = <<>> /\ sresults = <<>> /\ cells = {}
    /\ shpc = "start"
    /\ MergeIdle
    /\ StoreIdle
    /\ GeoIdle
    /\ AggIdle
    /\ LimIdle
    /\ RoundIdle
    /\ CacheIdle
    /\ PoolIdle
    /\ CollideIdle
    /\ TermIdle
    /\ UnifyIdle
    /\ SingletonIdle

SheetRest ==
    <<mergeVars, storeVars, geoVars, aggVars, limVars, roundVars, cacheVars, poolVars,
      collideVars, termVars, unifyVars, singletonVars>>

\* lines 106-110: the URLs are read and scraped; executor.map keeps the
\* order of urls.
ScrapeUrls ==
    /\ shpc = "start"
    /\ urls' = nonblank(column_J)
    /\ sresults' = [k \in 1..Len(nonblank(column_J)) |->
                        scrape_and_process(nonblank(column_J)[k], page)]
    /\ shpc' = "scraped"
    /\ UNCHANGED <<column_J, page, cells, SheetRest>>

\* lines 127-140: the cells are built and sent.
UpdateCells ==
    /\ shpc = "scraped"
    /\ cells' = title_cells(sresults)
    /\ shpc' = "updated"
    /\ UNCHANGED <<column_J, page, urls, sresults, SheetRest>>

NextSheet ==
    \/ ScrapeUrls
    \/ UpdateCells

SpecSheet == InitSheet /\ [][NextSheet]_vars

(***************************************************************************)
(* SpecSingleton: threads of one process calling GeoCache() of M357_MAP.py *)
(* and storing through the object they got.  Objects are numbered in the   *)
(* order of their creation.                                                *)
(***************************************************************************)
MaxNew == 2
SingletonKeys == {"Madrid", "Paris"}

\* A lock that excludes nobody.
lock_ignored(l) == TRUE
\* with cls._lock: the lock can be taken when no thread holds it
lock_free(l) == l = 0

InitSingleton ==
    /\ instance = 0 /\ lock = 0
    /\ npc = [w \in Workers |-> "idle"]
    /\ handle = [w \in Workers |-> 0]
    /\ nnew = [w \in Workers |-> 0]
    /\ entries = <<>> /\ everset = {}
    /\ MergeIdle
    /\ StoreIdle
    /\ GeoIdle
    /\ AggIdle
    /\ LimIdle
    /\ RoundIdle
    /\ CacheIdle
    /\ PoolIdle
    /\ CollideIdle
    /\ TermIdle
    /\ UnifyIdle
    /\ SheetIdle

SingletonRest ==
    <<mergeVars, storeVars, geoVars, aggVars, limVars, roundVars, cacheVars, poolVars,
      collideVars, termVars, unifyVars, sheetVars>>

\* GeoCache(): __new__ enters "with cls._lock".
EnterNew(w) ==
    /\ npc[w] = "idle"
    /\ nnew[w] < MaxNew
    /\ lock_free(lock)
    /\ lock' = w
    /\ npc' = [npc EXCEPT ![w] = "check"]
    /\ nnew' = [nnew EXCEPT ![w] = nnew[w] + 1]
    /\ UNCHANGED <<instance, handle, entries, everset, SingletonRest>>

\* if not cls._instance
CheckInstance(w) ==
    /\ npc[w] = "check"
    /\ npc' = [npc EXCEPT ![w] = IF instance = 0 THEN "create" ELSE "return"]
    /\ UNCHANGED <<instance, lock, handle, nnew, entries, everset, SingletonRest>>

\* cls._instance = super().__new__(cls); its cache = {} and max_size = 500
CreateInstance(w) ==
    /\ npc[w] = "create"
    /\ entries' = Append(entries, {})
    /\ instance' = Len(entries) + 1
    /\ npc' = [npc EXCEPT ![w] = "return"]
    /\ UNCHANGED <<lock, handle, nnew, everset, SingletonRest>>

\* return cls._instance; the with block releases the lock.
ReturnInstance(w) ==
    /\ npc[w] = "return"
    /\ handle' = [handle EXCEPT ![w] = instance]
    /\ lock' = IF lock = w THEN 0 ELSE lock
    /\ npc' = [npc EXCEPT ![w] = "idle"]
    /\ UNCHANGED <<instance, nnew, entries, everset, SingletonRest>>

\* geo_cache.set(key, value) through the thread's object: self.cache[key] = value
SetEntry(w, k) ==
    /\ npc[w] = "idle"
    /\ handle[w] # 0
    /\ k \notin entries[handle[w]]
    /\ entries' = [entries EXCEPT ![handle[w]] = entries[handle[w]] \cup {k}]
    /\ everset' = everset \cup {k}
    /\ UNCHANGED <<instance, lock, npc, handle, nnew, SingletonRest>>

NextSingleton ==
    \/ \E w \in Workers : EnterNew(w)
    \/ \E w \in Workers : CheckInstance(w)
    \/ \E w \in Workers : CreateInstance(w)
    \/ \E w \in Workers : ReturnInstance(w)
    \/ \E w \in Workers, k \in SingletonKeys : SetEntry(w, k)

SpecSingleton == InitSingleton /\ [][NextSingleton]_vars

Failing == {s \in Sources : cond[s] # "ok"}
Gathered == apc # "gather"
BatchRecords == Range(abatch)
RecordsOf(S) == UNION {Range(Items(s)) : s \in S}

C13_Serialized ==
    \A a, b \in pcalls :
        (a.provider = b.provider /\ a.worker # b.worker) => a.at # b.at

Storing == apc \in {"merge", "write"}

\* C14 (Barrier before merge): while the dataset file is read or written,
\* and afterwards, every worker task has finished, its result has been
\* taken by the main thread, and every task that raised has been logged;
\* none is queued or running.
C14_BarrierBeforeMerge ==
    (Storing \/ apc = "done") =>
        \A s \in Sources :
            /\ task[s] \in {"returned", "raised"}
            /\ s \in collected
            /\ task[s] = "raised" => s \in Range(alog)

\* C14: the prior file is being read after a run in which one task raised
\* and another returned records.
C14_MergeAfterAllTasks ==
    /\ apc = "merge"
    /\ \E s, t \in Sources : task[s] = "raised" /\ task[t] = "returned" /\ out[t] # <<>>
    /\ collected = Sources

C16_RoundTrip == rpc = "read" /\ rscript # "none" => readback = dataset

\* C17 (Exit status): a run that ends with a status ends with the failure
\* status exactly when writing the dataset file failed; every other run
\* ends successfully.
C17_ExitStatus ==
    (RunEnded /\ exit \in {"ok", "fail"}) => (exit = "fail" <=> err = "write")

\* C18 (A worker never raises past its boundary): whatever is wrong with
\* its source, no worker task ends by raising into the main thread.
C18_WorkerNeverRaises == \A s \in Sources : task[s] # "raised"

\* C20 (Cache hit): a resolver call that finds its hint in the cache
\* returns a point without waiting on the rate limiter and without calling
\* a provider, and leaves the cache as it was.
C20_CacheHit ==
    \A i \in 1..Len(calls) :
        calls[i].hit =>
            /\ calls[i].result # NoCoords
            /\ calls[i].waits = 0
            /\ ProviderCalls(calls[i]) = 0
            /\ ~calls[i].mutated

\* C20: a call was answered from the cache after an earlier call had asked
\* a provider for the same hint.
C20_HitAfterMiss ==
    /\ Len(calls) = 2
    /\ ~calls[1].hit /\ ProviderCalls(calls[1]) >= 1 /\ calls[1].waits >= 1
    /\ calls[2].hit /\ calls[2].hint = calls[1].hint
    /\ calls[2].waits = 0

\* C19 (Unresolved records are kept without geometry): no article in the
\* batch and no feature of the written collection carries the placeholder
\* coordinate, and the collection has one feature per saved article.
C19_NoPlaceholder ==
    /\ \A i \in 1..Len(results) : results[i].coords # Placeholder
    /\ \A i \in 1..Len(stored) : stored[i].coords # Placeholder
    /\ gpc = "exported" => Len(stored) = Len(results)

FallbackScripts == {"ultra", "masonic", "hybrid"}
\* The call had to ask the providers: a hint, and no cache entry for it.
Asked(call) == call.hint # "" /\ ~call.hit

\* C21 (Provider fallback): in the resolvers with Nominatim as primary and
\* Photon as secondary provider, a call whose primary answer is not a valid
\* coordinate calls the secondary with the hint, and returns a location
\* when the secondary answers with a valid one; a call whose primary
\* answer is valid does not call the secondary.
C21_ProviderFallback ==
    \A i \in 1..Len(calls) :
        (gscript \in FallbackScripts /\ Asked(calls[i])) =>
            /\ calls[i].primary # "valid" => calls[i].photon >= 1
            /\ (calls[i].primary # "valid" /\ calls[i].secondary_ok) => calls[i].result # NoCoords
            /\ calls[i].primary = "valid" => calls[i].photon = 0

\* C22 (Bounded attempts): within one resolver call each provider is
\* called at most once.
C22_BoundedAttempts ==
    \A i \in 1..Len(calls) : calls[i].nom <= 1 /\ calls[i].photon <= 1

ValidPoint(coords) == coords # NoCoords /\ is_valid_coords(coords[1], coords[2])

\* C23 (Hint order): for every located entry, no attempt before the last
\* one gave a valid point; when the last attempt gave a valid point it is
\* the entry's geometry; otherwise every hint of the entry was tried and
\* the entry has no geometry.
C23_HintOrder ==
    \A i \in 1..Len(calls) :
        LET e == calls[i]
            k == Len(e.attempts)
        IN  /\ \A j \in 1..(k - 1) : ~ValidPoint(e.attempts[j].coords)
            /\ IF k > 0 /\ ValidPoint(e.attempts[k].coords)
               THEN e.coords = e.attempts[k].coords
               ELSE k = e.hints /\ e.coords = NoCoords

\* The longitude and latitude of a cache entry: the cache of M357_MAP.py
\* holds (lon, lat), the caches of the two wikipedia scrapers (lat, lon).
CachedLon(v) == IF gscript = "ultra" THEN v[1] ELSE v[2]
CachedLat(v) == IF gscript = "ultra" THEN v[2] ELSE v[1]

\* C24 (Invalid provider output is never stored): every entry of the
\* location cache holds a longitude in [-180, 180] and a latitude in
\* [-90, 90].
C24_CacheHoldsValidPoints ==
    \A h \in Hints :
        cache[h] # NoCoords => is_valid_coords(CachedLon(cache[h]), CachedLat(cache[h]))

\* C25 (The location cache is bounded): the GeoCache never holds more than
\* max_size entries, and a call of enhanced_geocode whose primary provider
\* answered with a valid point stores it, on a full cache too, and returns
\* it.
C25_BoundedCache ==
    /\ cache_len(cache, others) <= max_size
    /\ \A i \in 1..Len(calls) :
           (gscript = "ultra" /\ Asked(calls[i]) /\ calls[i].primary = "valid") =>
               calls[i].result # NoCoords /\ calls[i].mutated

\* C26 (Cache keys are normalized hints): when two consecutive calls have
\* hints with the same canonical form and the first returned a point, the
\* second calls no provider and returns the same point.
C26_NormalizedKeys ==
    (/\ Len(calls) = 2
     /\ clean_place(calls[1].hint) = clean_place(calls[2].hint)
     /\ calls[1].result # NoCoords)
        => /\ ProviderCalls(calls[2]) = 0
           /\ calls[2].result = calls[1].result

\* C27 (The shared cache is safe under concurrent writes): whenever no
\* thread is inside a set call, every entry whose set call has returned is
\* in the cache file.
C27_NoLostCacheWrite ==
    (\A w \in Workers : cpc[w] = "idle") => cdone \subseteq load_json(cfile)

\* The pool size the configuration names: 8 for the feed scripts,
\* MAX_WORKERS for the wikipedia scrapers.
ConfiguredPool == IF pscript \in {"ultra", "masonic"} THEN max_workers ELSE MAX_WORKERS

\* C28 (Bounded worker pool): every source has exactly one task, and the
\* number of tasks running at the same time never exceeds the configured
\* pool size.
C28_BoundedPool ==
    pscript # "none" =>
        /\ pqueued + prunning + pdone = NumDescriptors
        /\ prunning + particles <= ConfiguredPool

\* The sources that yield the link l, and the one of them that completed last.
Colliding(l) == {s \in Sources : klink[s] = l}
LastCompleted(l) ==
    CHOOSE s \in Colliding(l) :
        \A t \in Colliding(l) :
            \E i, j \in 1..Len(korder) : korder[i] = t /\ korder[j] = s /\ i <= j
WithLink(feats, l) == SelectSeq(feats, LAMBDA f : GetLinkOrEmpty(f) = l)

\* C29 (Intra-batch collision): when a run has stored its batch, for every
\* link that two or more sources yielded, the batch and the merged dataset
\* each hold exactly one record with that link, the record of the source
\* whose task completed last.
C29_LastCompletedWins ==
    (kscript # "none" /\ kpc = "done") =>
        \A l \in CollideLinks :
            Cardinality(Colliding(l)) >= 2 =>
                LET winner == <<Feature(l, SourceTitle(LastCompleted(l)))>>
                IN  /\ WithLink(kbatch, l) = winner
                    /\ WithLink(kmerged, l) = winner

\* C30 (Every run terminates): whatever the servers do, every task
\* eventually finishes, the barrier is eventually passed and the merge
\* step is eventually reached and done.
C30_RunTerminates ==
    (tscript # "none") =>
        <>(/\ \A s \in Sources : ttask[s] \in {"returned", "raised"}
           /\ tpc = "done")

ItemsWithKey(items, k) == SelectSeq(items, LAMBDA it : it.link = k)
KeysOf(items) == {items[i].link : i \in 1..Len(items)}

\* C31 (merge_data): the result has exactly one item per key of old and
\* new data.  For a key on both sides it is a new item when the new
\* priority is strictly greater than the old one, and the old item
\* otherwise; for a key on one side only it is an item of that side.
C31_MergeData ==
    fn = "merge_data" =>
        /\ KeysOf(merged) = KeysOf(old_fc) \cup KeysOf(new_fc)
        /\ UniqueKeys(merged)
        /\ \A k \in KeysOf(merged) :
              LET r == ItemsWithKey(merged, k)[1]
                  olds == ItemsWithKey(old_fc, k)
                  news == ItemsWithKey(new_fc, k)
              IN  CASE olds # <<>> /\ news # <<>> ->
                         IF news[1].priority > olds[1].priority
                         THEN r = news[1] ELSE r = olds[1]
                    [] olds # <<>> -> r = olds[1]
                    [] OTHER -> r = news[1]

\* One key on both sides took the new item, whose priority is higher, and
\* another kept the stored item, whose priority is the same.
C31_Replaced ==
    /\ fn = "merge_data"
    /\ \E k \in KeysOf(old_fc) \cap KeysOf(new_fc) :
          /\ ItemsWithKey(new_fc, k)[1].priority > ItemsWithKey(old_fc, k)[1].priority
          /\ ItemsWithKey(merged, k)[1].coords # "stored"
    /\ \E k \in KeysOf(old_fc) \cap KeysOf(new_fc) :
          /\ ItemsWithKey(new_fc, k)[1].priority = ItemsWithKey(old_fc, k)[1].priority
          /\ ItemsWithKey(merged, k)[1].coords = "stored"

combined_input == google_sheets_data \o alerts_data \o wikipedia_data
\* The items of the input that are the first with their link value, in
\* input order; Links is the set of link values that count.
FirstOccurrences(items, Links) ==
    LET first(i) == GetLink(items[i]) \in Links
                    /\ \A j \in 1..(i - 1) : GetLink(items[j]) # GetLink(items[i])
        RECURSIVE from(_)
        from(i) == IF i > Len(items) THEN <<>>
                   ELSE (IF first(i) THEN <<items[i]>> ELSE <<>>) \o from(i + 1)
    IN  from(1)
InputLinks == {GetLink(combined_input[i]) : i \in 1..Len(combined_input)}

\* C32 as stated (unify_data): the output is the sequence of the first
\* items of every distinct link of the concatenated input, in input order.
C32_UnifyEveryLink ==
    upc = "unified" =>
        unified_data = FirstOccurrences(combined_input, InputLinks \ {PyNone})

\* C32 amended (unify_data): the output is the sequence of the first items
\* of every distinct non-empty link of the concatenated input, in input
\* order; items without a link or with an empty link are left out.
C32_UnifyNonEmptyLinks ==
    upc = "unified" =>
        unified_data = FirstOccurrences(combined_input, InputLinks \ {PyNone, ""})

\* Two input items share a link, a third has an empty link.
C32_DuplicateAndEmpty ==
    /\ upc = "unified"
    /\ \E i, j \in 1..Len(combined_input) :
          i < j /\ truthy(GetLink(combined_input[i]))
          /\ GetLink(combined_input[i]) = GetLink(combined_input[j])
    /\ \E i \in 1..Len(combined_input) : combined_input[i].link = ""
    /\ Len(unified_data) < Len(combined_input) - 1

CachingScripts == {"ultra", "hybrid", "wiki"}
\* How a resolver stores a provider's (lon, lat): ultra as (lon, lat), the
\* wikipedia scrapers as (lat, lon).
stored_as(scr, a) == IF scr = "ultra" THEN a ELSE <<a[2], a[1]>>

\* C33 (A failed resolution leaves the cache unchanged): a call that
\* returns no coordinates does not change the cache; a call that changes
\* it stores, under its own hint, a pair a provider answered with in that
\* call; and a call for a non-empty hint that has no cache entry, such as a
\* hint whose previous call failed, asks the providers.
C33_FailedLookupNotCached ==
    gscript \in CachingScripts =>
        /\ \A i \in 1..Len(calls) :
              LET call == calls[i] IN
              /\ call.result = NoCoords => ~call.mutated
              /\ call.mutated =>
                    call.result \in {stored_as(gscript, a) : a \in call.answers}
              /\ (call.mutated /\ i = Len(calls)) => cache[call.hint] = call.result
              /\ (call.hint # "" /\ ~call.hit) => call.nom + call.photon >= 1
        /\ (Len(calls) = 2 /\ calls[1].hint = calls[2].hint /\ calls[1].hint # ""
               /\ calls[1].result = NoCoords)
              => calls[2].nom + calls[2].photon >= 1
        /\ \A h \in Hints : cache[h] # NoCoords =>
              cache[h] \in {stored_as(gscript, a) : a \in NominatimCoords \cup PhotonCoords}

\* A hint failed, was asked again at the providers and was then cached.
C33_RetriedAfterFailure ==
    /\ gscript \in CachingScripts
    /\ Len(calls) = 2
    /\ calls[1].hint = calls[2].hint /\ calls[1].hint # ""
    /\ calls[1].result = NoCoords /\ calls[1].nom + calls[1].photon >= 1
    /\ calls[2].mutated /\ cache[calls[2].hint] = calls[2].result

\* The sheet row of the i-th cell of column J below the header.
SheetRow(i) == i + 1

\* C34 (Sheet updater): every cell written lies in a row whose column J
\* holds the URL the value was scraped from, and no cell is written to a
\* row whose URL gave the Error result.
C34_CellsInOwnRow ==
    shpc = "updated" =>
        /\ \A c \in cells :
              \E i \in 1..Len(column_J) : SheetRow(i) = c.row /\ column_J[i] = c.value
        /\ \A i \in 1..Len(column_J) :
              (column_J[i] # "" /\ page[column_J[i]] = "Error")
                  => ~\E c \in cells : c.row = SheetRow(i)

\* C35 (GeoCache is a singleton): at most one object is ever created,
\* every GeoCache() call returns it, and the keys stored so far are all in
\* its cache, whatever constructions came after they were stored.
C35_Singleton ==
    /\ Len(entries) <= 1
    /\ \A w \in Workers : handle[w] # 0 => handle[w] = instance /\ instance = 1
    /\ instance # 0 => everset \subseteq entries[instance]

\* Both threads constructed twice, the second time after a key was stored,
\* and hold the same object with that key.
C35_SharedAfterStore ==
    /\ \A w \in Workers : nnew[w] = MaxNew /\ npc[w] = "idle" /\ handle[w] = 1
    /\ everset = SingletonKeys
    /\ entries[1] = SingletonKeys

====
